---- MODULE Spec2Model ----
(***************************************************************************)
(* Verification model of platform-registry-api: the authenticating,       *)
(* permission-filtering reverse proxy in front of a Docker Registry v2.   *)
(*                                                                         *)
(* Strings that the code matches against path grammars are modelled as    *)
(* sequences of path segments ("a/b/tags/list" is <<"a","b","tags",       *)
(* "list">>; a trailing slash is a final empty segment).                  *)
(***************************************************************************)
EXTENDS Integers, Sequences, FiniteSets, TLC

VARIABLES
    \* ---- request handling (V2Handler.handle, handle_repo_tags_list,
    \*      handle_version_check) ----
    config,             \* [type, upstream_repo]: UpstreamRegistryConfig
    request,            \* the aiohttp Request being handled
    granted,            \* permissions the authorization service approves
    pc,                 \* position of the handler coroutine
    registry_repo_url,  \* RepoURL.from_url(request.url)
    upstream_repo_url,  \* url_factory.create_upstream_repo_url(...)
    sent,               \* requests issued to the upstream, in order
    response,           \* what the caller receives
    \* ---- catalog (V2Handler.handle_catalog) and the client paging through it
    upstream_images,    \* the upstream's catalog, in upstream order
    upstream_honours_n, \* whether the upstream returns pages of the size asked
    tree,               \* the caller's permission tree under image://{cluster}
    max_catalog_entries,\* config.upstream_registry.max_catalog_entries
    page,               \* CatalogPage of the request
    cpc,                \* position of handle_catalog / of the client
    filtered,           \* handle_catalog: filtered
    index,              \* handle_catalog: index
    more_images,        \* handle_catalog: more_images
    last_token_is_correct, \* handle_catalog: last_token_is_correct
    last_token,         \* handle_catalog: last_token
    paging_url,         \* handle_catalog: paging_url
    catalog_response,   \* the response of handle_catalog
    client_pages,       \* the responses the client has received so far
    \* ---- ProjectDeleter and the clients' delete_project_images
    client,             \* the client: its class and _is_upstream_gar()
    repositories,       \* the repositories the registry holds, in catalog order
    events,             \* the events of the platform-admin stream, in order
    handled,            \* the number of events delivered so far
    dpc,                \* position of _on_admin_event / delete_project_images
    enum,               \* the requests of _get_images_for_delete so far
    tasks,              \* the delete_image_manifest tasks of the last call
    sem,                \* the value of the client's _sem
    log,                \* how the handling of each delivered event ended
    acks,               \* the arguments of the calls of ack
    \* ---- the upstream token caches (ExpiringCache, OAuthUpstream,
    \*      AWSECRUpstream)
    strategy,           \* the class of the upstream holding the cache
    now,                \* the value of time_factory()
    cache,              \* ExpiringCache._cache
    calls,              \* the _get_headers calls: position and locals
    fetches,            \* the number of requests for a token made so far
    last_put,           \* for each key, the arguments of the last put
    got,                \* the last call of get and what it returned
    returned,           \* the last _get_headers call that ended, and how
    \* ---- the upstream's tags and the client paging through
    \*      /v2/{repo}/tags/list
    upstream_tags,      \* the tags of the repository at the upstream
    client_pc,          \* what the paging client does
    client_tags,        \* the tags the client has received, concatenated
    client_link,        \* the URL of the last Link rel=next it received
    \* ---- UpstreamV2ApiClient's repo names
    resolved            \* the calls of _upstream_repo_name and what came back

hvars == <<config, request, granted, pc, registry_repo_url, upstream_repo_url,
           sent, response>>

cvars == <<upstream_images, upstream_honours_n, tree, max_catalog_entries, page,
           cpc, filtered, index, more_images, last_token_is_correct, last_token,
           paging_url, catalog_response, client_pages>>

dvars == <<client, repositories, events, handled, dpc, enum, tasks, sem, log,
           acks>>

tvars == <<strategy, now, cache, calls, fetches, last_put, got, returned>>

gvars == <<upstream_tags, client_pc, client_tags, client_link>>

nvars == <<resolved>>

vars == <<hvars, cvars, dvars, tvars, gvars, nvars>>

-----------------------------------------------------------------------------
\* Bounds of the model.
MaxRepoLen == 3
MaxCatalog == 4
MaxN == 2
MaxCatalogEntries == 2
MaxRepositories == 5
MaxGarRepositories == 2
MaxEvents == 1

\* config.upstream_registry.project / config.server.name
Project == "testproject"
ServerName == "Docker Registry"

-----------------------------------------------------------------------------
\* Sequence helpers.
IsPrefix(p, s) == Len(p) <= Len(s) /\ SubSeq(s, 1, Len(p)) = p

DropFirst(s, k) == SubSeq(s, k + 1, Len(s))

SeqsUpTo(S, k) == UNION {[1..m -> S] : m \in 1..k}

-----------------------------------------------------------------------------
\* RepoURL

NoQuery == [from |-> <<>>, has_from |-> FALSE]

NoURL == [origin |-> "", path |-> <<>>, query |-> NoQuery]

NoRepoURL == [repo |-> <<>>, mounted_repo |-> <<>>, url |-> NoURL, valid |-> FALSE]

V2Keywords == {"tags", "manifests", "blobs"}

\* _v2_path_re.fullmatch: "/v2/(?P<repo>.+)/(?P<path_suffix>(tags|manifests|blobs)/.*)"
\* the positions where path_suffix may start; the greedy repo takes the last
V2SuffixStarts(path) ==
    {i \in 3..Len(path) : /\ path[1] = "v2"
                          /\ path[i] \in V2Keywords
                          /\ i < Len(path)}

\* second pattern of _allowed_skip_perms_path_re:
\* "^/v2/(?P<project>.+)/(?P<repo>.+)/pkg/(?P<path_suffix>blobs/.+)"
\* the positions of "pkg"
PkgStarts(path) ==
    {i \in 4..Len(path) : /\ path[1] = "v2"
                          /\ path[i] = "pkg"
                          /\ i + 2 <= Len(path)
                          /\ path[i + 1] = "blobs"
                          /\ ~(Len(path) = i + 2 /\ path[i + 2] = "")}

\* first pattern of _allowed_skip_perms_path_re:
\* "^/(artifacts-uploads|artifacts-downloads)/namespaces/(?P<project>.+)/"
\* "repositories/(?P<repo>.+)/(?P<path_suffix>(uploads|downloads))/(?P<upload_id>...)"
\* the positions of "repositories"
ArtifactsStarts(path) ==
    {i \in 4..Len(path) : /\ path[1] \in {"artifacts-uploads", "artifacts-downloads"}
                          /\ path[2] = "namespaces"
                          /\ path[i] = "repositories"
                          /\ Len(path) >= i + 3
                          /\ path[Len(path) - 1] \in {"uploads", "downloads"}
                          /\ path[Len(path)] # ""}

Max(S) == CHOOSE x \in S : \A y \in S : y <= x

\* RepoURL._get_match_skip_perms_path_re
MatchSkipPermsPathRe(url) ==
    ArtifactsStarts(url.path) # {} \/ PkgStarts(url.path) # {}

\* the f"{project}/{repo}" of a passthrough match
SkipPermsRepo(path) ==
    IF ArtifactsStarts(path) # {}
    THEN LET i == Max(ArtifactsStarts(path))
         IN  SubSeq(path, 3, i - 1) \o SubSeq(path, i + 1, Len(path) - 2)
    ELSE LET i == Max(PkgStarts(path))
         IN  SubSeq(path, 2, i - 1)

\* the path_suffix of a passthrough match
SkipPermsSuffix(path) ==
    IF ArtifactsStarts(path) # {}
    THEN <<path[Len(path) - 1]>>
    ELSE SubSeq(path, Max(PkgStarts(path)) + 1, Len(path))

\* `"blobs/uploads" in path_suffix.path`
HasBlobsUploads(suffix) ==
    \E i \in 1..(Len(suffix) - 1) : suffix[i] = "blobs" /\ suffix[i + 1] = "uploads"

\* RepoURL._parse: [ok, repo, mounted_repo, path_suffix(path, query)]
Parse(url) ==
    IF MatchSkipPermsPathRe(url)
    THEN [ok |-> TRUE, repo |-> SkipPermsRepo(url.path), mounted_repo |-> <<>>,
          suffix |-> SkipPermsSuffix(url.path), query |-> NoQuery]
    ELSE IF V2SuffixStarts(url.path) = {}
    THEN [ok |-> FALSE, repo |-> <<>>, mounted_repo |-> <<>>,
          suffix |-> <<>>, query |-> NoQuery]
    ELSE LET i == Max(V2SuffixStarts(url.path))
             suffix == SubSeq(url.path, i, Len(url.path))
         IN  [ok |-> TRUE,
              repo |-> SubSeq(url.path, 2, i - 1),
              mounted_repo |-> IF HasBlobsUploads(suffix) /\ url.query.has_from
                               THEN url.query.from ELSE <<>>,
              suffix |-> suffix,
              query |-> url.query]

\* RepoURL.from_url
FromUrl(url) ==
    LET p == Parse(url)
    IN  [repo |-> p.repo, mounted_repo |-> p.mounted_repo, url |-> url,
         valid |-> p.ok]

\* RepoURL.allow_skip_perms
AllowSkipPermsNever(repo_url) == FALSE

AllowSkipPerms(repo_url) == MatchSkipPermsPathRe(repo_url.url)

\* RepoURL.with_project
WithProject(repo_url, project, upstream_repo) ==
    LET p == Parse(repo_url.url)
        new_mounted_repo == IF repo_url.mounted_repo # <<>>
                            THEN <<project>> \o repo_url.mounted_repo
                            ELSE <<>>
        query == IF repo_url.mounted_repo # <<>>
                 THEN [from |-> new_mounted_repo, has_from |-> TRUE]
                 ELSE p.query
        new_repo == <<project>>
                    \o (IF upstream_repo # "" THEN <<upstream_repo>> ELSE <<>>)
                    \o repo_url.repo
    IN  [repo |-> new_repo, mounted_repo |-> new_mounted_repo,
         url |-> [origin |-> repo_url.url.origin,
                  path |-> <<"v2">> \o new_repo \o p.suffix,
                  query |-> query],
         valid |-> TRUE]

\* RepoURL.with_origin
WithOrigin(repo_url, origin) ==
    [repo_url EXCEPT !.url.origin = origin]

\* RepoURL.with_repo
WithRepo(repo_url, repo) ==
    LET p == Parse(repo_url.url)
    IN  [repo |-> repo, mounted_repo |-> repo_url.mounted_repo,
         url |-> [origin |-> repo_url.url.origin,
                  path |-> <<"v2">> \o repo \o p.suffix,
                  query |-> p.query],
         valid |-> TRUE]

\* URLFactory.create_registry_repo_url; not valid where it raises ValueError
CreateRegistryRepoUrl(upstream_url) ==
    IF ~(Len(upstream_url.repo) > 1 /\ upstream_url.repo[1] = Project)
    THEN NoRepoURL
    ELSE WithOrigin(WithRepo(upstream_url, Tail(upstream_url.repo)), "registry")

\* URLFactory.create_upstream_repo_url
CreateUpstreamRepoUrl(registry_url, cfg) ==
    IF AllowSkipPerms(registry_url)
    THEN WithOrigin(registry_url, "upstream")
    ELSE WithOrigin(WithProject(registry_url, Project, cfg.upstream_repo), "upstream")

\* the state of the tags paging variables while no client pages through a
\* repository's tags
TagsIdle ==
    /\ upstream_tags = <<>>
    /\ client_pc = "off"
    /\ client_tags = <<>>
    /\ client_link = NoURL

\* no repo name has been resolved by an UpstreamV2ApiClient
NamesIdle == resolved = {}

-----------------------------------------------------------------------------
\* The requests the router accepts (V2Handler.register, register_artifacts).

RepoSegs == {"alice", "img", "pkg"}

Suffixes == {<<"tags", "list">>, <<"manifests", "ref">>,
             <<"manifests", "sha256:abcd">>,
             <<"blobs", "uploads", "">>, <<"blobs", "sha">>}

Methods == {"HEAD", "GET", "POST", "PUT", "PATCH", "DELETE"}

MountSources == {<<"bob", "img">>}

\* the second path has no upload id: register_artifacts routes it
\* (path_suffix "uploads/") and no pattern of RepoURL matches it
ArtifactPaths ==
    {<<"artifacts-uploads", "namespaces", "alice", "repositories", "img",
       "uploads", "id">>,
     <<"artifacts-uploads", "namespaces", "alice", "repositories", "img",
       "uploads", "">>}

RequestPaths ==
    {<<"v2", "">>}
    \cup {<<"v2">> \o r \o s : r \in SeqsUpTo(RepoSegs, MaxRepoLen), s \in Suffixes}
    \cup ArtifactPaths

Credentials == {"none", "malformed", "valid"}

UpstreamTypes == {"basic", "oauth", "aws_ecr"}

Configs == [type : UpstreamTypes, upstream_repo : {"", "gar"}]

\* the handler a request is routed to
Route(req) ==
    LET path == req.url.path
    IN  IF path = <<"v2", "">>
        THEN IF req.method = "GET" THEN "handle_version_check" ELSE "none"
        ELSE IF /\ req.method = "GET" /\ path[1] = "v2" /\ Len(path) >= 4
                /\ SubSeq(path, Len(path) - 1, Len(path)) = <<"tags", "list">>
        THEN "handle_repo_tags_list"
        ELSE IF V2SuffixStarts(path) # {} \/ path[1] = "artifacts-uploads"
        THEN "handle"
        ELSE "none"

\* the query of the Link rel=next of _handle_aws_ecr_tags_list: next={token}
NextQuery == [from |-> <<>>, has_from |-> FALSE, next |-> "nextToken"]

Requests ==
    {req \in [method : Methods,
              url : [origin : {"registry"},
                     path : RequestPaths,
                     query : {NoQuery} \cup [from : MountSources, has_from : {TRUE}]],
              authorization : Credentials] :
        /\ Route(req) # "none"
        /\ req.url.query.has_from => (req.method = "POST" /\ Route(req) = "handle")}
    \cup {req \in [method : {"GET"},
                   url : [origin : {"registry"},
                          path : RequestPaths,
                          query : {NextQuery}],
                   authorization : Credentials] :
             Route(req) = "handle_repo_tags_list"}

NoRequest ==
    [method |-> "", url |-> NoURL, authorization |-> "none"]

NoResponse == [status |-> 0, www_authenticate |-> ""]

\* Permission(uri=self._create_image_uri(repo), action=...)
Permission(repo, action) == [uri |-> <<"image:", "cluster">> \o repo, action |-> action]

\* V2Handler._is_pull_request
IsPullRequestNever(req) == FALSE

IsPullRequest(req) == req.method \in {"HEAD", "GET"}

\* statuses a proxied upstream response may carry
UpstreamStatuses == {200, 404}

StatusUnauthorized == 401
StatusForbidden == 403
StatusBadRequest == 400
StatusServerError == 500

-----------------------------------------------------------------------------
\* Authentication and authorization outcomes.

\* aiohttp_security.check_authorized as _get_user_from_request sees it:
\* "ok", HTTPUnauthorized (no identity) or ValueError (malformed header)
CheckAuthorized(req) ==
    CASE req.authorization = "none" -> "HTTPUnauthorized"
      [] req.authorization = "malformed" -> "ValueError"
      [] OTHER -> "ok"

\* aiohttp_security.check_permission(request, "ignored", permissions):
\* check_authorized first, then HTTPForbidden unless every permission is approved
CheckPermission(req, permissions, approved) ==
    IF CheckAuthorized(req) # "ok" THEN CheckAuthorized(req)
    ELSE IF permissions \subseteq approved THEN "ok"
    ELSE "HTTPForbidden"

\* V2Handler._raise_unauthorized
RaiseUnauthorized ==
    [status |-> StatusUnauthorized,
     www_authenticate |-> "Basic realm=" \o ServerName]

\* response for an exception that leaves the handler
\* (aiohttp: an HTTPException is its own response, anything else is a 500)
ErrorResponse(exc) ==
    CASE exc = "HTTPForbidden" -> [status |-> StatusForbidden, www_authenticate |-> ""]
      [] exc = "HTTPBadRequest" -> [status |-> StatusBadRequest, www_authenticate |-> ""]
      [] OTHER -> [status |-> StatusServerError, www_authenticate |-> ""]

\* V2Handler._get_user_from_request: the response on failure, NoResponse on success
GetUserFromRequest(req) ==
    CASE CheckAuthorized(req) = "ValueError" -> ErrorResponse("HTTPBadRequest")
      [] CheckAuthorized(req) = "HTTPUnauthorized" -> RaiseUnauthorized
      [] OTHER -> NoResponse

\* _check_user_permissions letting a refused request through
CheckUserPermissionsIgnoresForbidden(req, permissions, approved) ==
    LET outcome == CheckPermission(req, permissions, approved)
    IN  CASE outcome \in {"ok", "HTTPForbidden"} -> NoResponse
          [] outcome = "HTTPUnauthorized" -> RaiseUnauthorized
          [] OTHER -> ErrorResponse(outcome)

\* V2Handler._check_user_permissions: only HTTPUnauthorized is caught
CheckUserPermissions(req, permissions, approved) ==
    LET outcome == CheckPermission(req, permissions, approved)
    IN  CASE outcome = "ok" -> NoResponse
          [] outcome = "HTTPUnauthorized" -> RaiseUnauthorized
          [] OTHER -> ErrorResponse(outcome)

\* handle asking for the target repo only
HandlePermissionsWithoutMount(req, repo_url) ==
    {Permission(repo_url.repo, IF IsPullRequest(req) THEN "read" ELSE "write")}

\* handle asking for read whatever the method
HandlePermissionsReadOnly(req, repo_url) ==
    {Permission(repo_url.repo, "read")}
    \cup (IF repo_url.mounted_repo # <<>>
          THEN {Permission(repo_url.mounted_repo, "read")} ELSE {})

\* the permissions V2Handler.handle asks for
HandlePermissions(req, repo_url) ==
    {Permission(repo_url.repo, IF IsPullRequest(req) THEN "read" ELSE "write")}
    \cup (IF repo_url.mounted_repo # <<>>
          THEN {Permission(repo_url.mounted_repo, "read")} ELSE {})

-----------------------------------------------------------------------------
\* The catalog: image names, permission trees, the upstream's paging.

\* an image name is the sequence of its "/"-separated parts; "" is <<>>
CatalogNames ==
    << <<"testproject", "alice", "img1">>,
       <<"testproject", "bob", "img2">>,
       <<"other", "alice", "img3">>,
       <<"testproject", "alice", "img4">>,
       <<"testproject", "gar", "alice", "img5">>,
       <<"testproject", "alice", "img6">>,
       <<"testproject", "gar", "alice", "img7">> >>

\* the subsequence of s at the positions in keep
RECURSIVE Pick(_, _, _)
Pick(s, keep, i) ==
    IF i > Len(s) THEN <<>>
    ELSE (IF i \in keep THEN <<s[i]>> ELSE <<>>) \o Pick(s, keep, i + 1)

\* the catalogs an upstream can hold
Catalogs ==
    {Pick(CatalogNames, keep, 1) :
        keep \in {k \in SUBSET (1..Len(CatalogNames)) : Cardinality(k) <= MaxCatalog}}

\* ClientAccessSubTreeView: a node of the permission tree
Leaf(action) == [action |-> action, children |-> <<>>]

Node(action, children) == [action |-> action, children |-> children]

\* leaf names of the form "{image}:{tag}", with the image they start with
TaggedNames ==
    ("img4:latest" :> "img4") @@ ("img6:latest" :> "img6") @@ ("img6:dev" :> "img6")

\* leaf_name.startswith(part + ":")
StartsWithTagOf(leaf_name, part) ==
    leaf_name \in DOMAIN TaggedNames /\ TaggedNames[leaf_name] = part

\* the permission trees get_permissions_tree answers with
Trees ==
    { Leaf("manage"),
      Leaf("list"),
      Node("list", "alice" :> Leaf("manage")),
      Node("list", ("alice" :> Node("list", ("img1" :> Leaf("read"))
                                             @@ ("img4" :> Leaf("deny"))))
                   @@ ("bob" :> Leaf("deny"))),
      Node("list", "alice" :> Node("list", ("img4:latest" :> Leaf("read"))
                                            @@ ("img6:latest" :> Leaf("deny"))
                                            @@ ("img6:dev" :> Leaf("read")))),
      Node("list", "alice" :> Node("deny", ("img1" :> Leaf("read"))
                                            @@ ("img4" :> Leaf("read")))) }

\* a walk that returns true at a node of action read or higher, descends
\* into the child named by the next part otherwise, and returns false when
\* there is no such child or no part is left
RECURSIVE WalkTreeByName(_, _, _)
WalkTreeByName(node, parts, i) ==
    IF node.action \in {"read", "write", "manage"} THEN TRUE
    ELSE IF i > Len(parts) THEN FALSE
    ELSE IF parts[i] \in DOMAIN node.children
    THEN WalkTreeByName(node.children[parts[i]], parts, i + 1)
    ELSE FALSE

\* helpers.check_image_catalog_permission: the walk from node over
\* parts[i..]
RECURSIVE WalkTree(_, _, _)
WalkTree(node, parts, i) ==
    IF i > Len(parts) \/ node.action # "list"
    THEN node.action \notin {"deny", "list"}
    ELSE LET part == parts[i]
             matching_leaves ==
                 {leaf_name \in DOMAIN node.children :
                     /\ DOMAIN node.children[leaf_name].children = {}
                     /\ StartsWithTagOf(leaf_name, part)}
         IN  IF part \in DOMAIN node.children
             THEN WalkTree(node.children[part], parts, i + 1)
             ELSE IF matching_leaves = {}
             THEN node.action \notin {"deny", "list"}
             ELSE ~ \E leaf_name \in matching_leaves :
                        node.children[leaf_name].action \in {"deny", "list"}

\* helpers.check_image_catalog_permission
CheckImageCatalogPermission(image, t) == WalkTree(t, image, 1)

\* project_prefix of filter_images_1_indexed, as parts
ProjectPrefix(project_name, upstream_repo) ==
    <<project_name>> \o (IF upstream_repo # "" THEN <<upstream_repo>> ELSE <<>>)

\* image.startswith(project_prefix): the prefix ends with "/"
StartsWithPrefix(image, project_prefix) ==
    IsPrefix(project_prefix, image) /\ Len(image) > Len(project_prefix)

RECURSIVE FilterFrom(_, _, _, _)
FilterFrom(images_names, t, project_prefix, i) ==
    IF i > Len(images_names) THEN <<>>
    ELSE LET image == DropFirst(images_names[i], Len(project_prefix))
         IN  (IF /\ StartsWithPrefix(images_names[i], project_prefix)
                 /\ CheckImageCatalogPermission(image, t)
              THEN << <<i, image>> >> ELSE <<>>)
             \o FilterFrom(images_names, t, project_prefix, i + 1)

RECURSIVE FilterFromNoPermission(_, _, _, _)
FilterFromNoPermission(images_names, t, project_prefix, i) ==
    IF i > Len(images_names) THEN <<>>
    ELSE LET image == DropFirst(images_names[i], Len(project_prefix))
         IN  (IF StartsWithPrefix(images_names[i], project_prefix)
              THEN << <<i, image>> >> ELSE <<>>)
             \o FilterFromNoPermission(images_names, t, project_prefix, i + 1)

\* filter_images_1_indexed yielding every image of the project
FilterImages1IndexedNoPermission(images_names, t, project_name, upstream_repo) ==
    FilterFromNoPermission(images_names, t,
                           ProjectPrefix(project_name, upstream_repo), 1)

\* V2Handler.filter_images_1_indexed: the pairs <<index, image>> it yields
FilterImages1Indexed(images_names, t, project_name, upstream_repo) ==
    FilterFrom(images_names, t, ProjectPrefix(project_name, upstream_repo), 1)

\* CatalogPage
CatalogPage(number, token) == [number |-> number, last_token |-> token]

\* an upstream catalog URL: the query keys n, number and last; None is NoPagingUrl
NoPagingUrl == [valid |-> FALSE, n |-> 0, number |-> 0, last |-> <<>>]

\* create_upstream_catalog_url(_prepare_catalog_request_params(page))
CreateUpstreamCatalogUrl(p) ==
    [valid |-> TRUE, n |-> p.number, number |-> 0, last |-> p.last_token]

\* the position of name in images, 0 when absent
PositionOf(name, images) ==
    IF \E i \in 1..Len(images) : images[i] = name
    THEN CHOOSE i \in 1..Len(images) : images[i] = name
    ELSE 0

Min(S) == CHOOSE x \in S : \A y \in S : x <= y

\* the upstream's answer holding count entries after position start, with or
\* without a next link
UpstreamPage(images, start, n, count, with_next) ==
    LET names == SubSeq(images, start + 1, start + count)
    IN  [status |-> 200,
         images |-> names,
         next |-> IF with_next /\ count > 0
                  THEN [valid |-> TRUE, n |-> n, number |-> 0,
                        last |-> names[count]]
                  ELSE NoPagingUrl]

\* the answers of the upstream to GET url: an unknown last is 404; an upstream
\* that honours n returns the n entries after last and a next link exactly
\* when entries follow them; any other upstream returns any number of the
\* entries after last, with or without a next link, or fails
UpstreamCatalog(images, honours_n, url) ==
    LET start == PositionOf(url.last, images)
        rest == Len(images) - start
    IN  IF url.last # <<>> /\ start = 0
        THEN {[status |-> 404, images |-> <<>>, next |-> NoPagingUrl]}
        ELSE IF honours_n
        THEN {UpstreamPage(images, start, url.n, Min({url.n, rest}), rest > url.n)}
        ELSE {UpstreamPage(images, start, url.n, count, with_next) :
                  count \in 0..rest, with_next \in BOOLEAN}
             \cup {[status |-> 500, images |-> <<>>, next |-> NoPagingUrl]}

\* more_images set only when the upstream announced a next page
MoreImagesOnlyWithNextPage(next_url, idx, images_list) == next_url.valid

\* the page is full: more_images when paging_url or index != len(images_list)
MoreImages(next_url, idx, images_list) ==
    next_url.valid \/ idx # Len(images_list)

\* the for loop of handle_catalog going on after the page is full
RECURSIVE ForLoopWithoutBreak(_, _, _, _, _, _)
ForLoopWithoutBreak(st, pairs, k, images_list, next_url, number) ==
    IF k > Len(pairs) THEN st
    ELSE LET idx == pairs[k][1]
             appended == [st EXCEPT !.filtered = Append(st.filtered, pairs[k][2]),
                                    !.index = idx]
         IN  IF Len(appended.filtered) = number
             THEN ForLoopWithoutBreak(
                   [appended EXCEPT
                      !.more_images = MoreImages(next_url, idx, images_list),
                      !.last_token_is_correct = (idx = Len(images_list)),
                      !.last_token = IF idx = Len(images_list)
                                     THEN next_url.last ELSE st.last_token],
                   pairs, k + 1, images_list, next_url, number)
             ELSE ForLoopWithoutBreak(appended, pairs, k + 1, images_list,
                                      next_url, number)

\* the for loop of handle_catalog over the yielded pairs, from pair k on;
\* st holds filtered, index, more_images, last_token_is_correct, last_token
RECURSIVE ForLoop(_, _, _, _, _, _)
ForLoop(st, pairs, k, images_list, next_url, number) ==
    IF k > Len(pairs) THEN st
    ELSE LET idx == pairs[k][1]
             appended == [st EXCEPT !.filtered = Append(st.filtered, pairs[k][2]),
                                    !.index = idx]
         IN  IF Len(appended.filtered) = number
             THEN [appended EXCEPT
                      !.more_images = st.more_images
                                      \/ MoreImages(next_url, idx, images_list),
                      !.last_token_is_correct = st.last_token_is_correct
                                                \/ idx = Len(images_list),
                      !.last_token = IF idx = Len(images_list)
                                     THEN next_url.last ELSE st.last_token]
             ELSE ForLoop(appended, pairs, k + 1, images_list, next_url, number)

\* page_exact_last asking for one entry more than index
PageExactLastOffByOne(idx, token) == CatalogPage(idx + 1, token)

\* page_exact_last = CatalogPage(number=index, last_token=last_token)
PageExactLast(idx, token) == CatalogPage(idx, token)

NoLink == [n |-> 0, last |-> <<>>]

NoCatalogResponse == [status |-> 0, repositories |-> <<>>, link |-> NoLink]

\* the state of the catalog variables while no catalog request is served
CatalogIdle ==
    /\ upstream_images = <<>>
    /\ upstream_honours_n = TRUE
    /\ tree = Leaf("list")
    /\ max_catalog_entries = 1
    /\ page = CatalogPage(0, <<>>)
    /\ cpc = "idle"
    /\ filtered = <<>>
    /\ index = 0
    /\ more_images = FALSE
    /\ last_token_is_correct = FALSE
    /\ last_token = <<>>
    /\ paging_url = NoPagingUrl
    /\ catalog_response = NoCatalogResponse
    /\ client_pages = <<>>

-----------------------------------------------------------------------------
\* The clients that delete a project's images. Here a name is the sequence
\* of the pieces of its text, "/" being a piece of its own, so that
\* str.startswith is IsPrefix: "org/proj2/img" is <<"org", "/", "proj", "2",
\* "/", "img">>.

\* del_sem_size of RegistryApiClient, asyncio.Semaphore(5) of UpstreamV2ApiClient
DelSemSize == 5

\* str(self._repo_prefix) of UpstreamV2ApiClient
RepoPrefix == <<Project, "/">>

\* f"{org}/{project}/{image}"
ImageName(org, project, image) == org \o <<"/">> \o project \o <<"/", image>>

\* the repositories a registry can hold, each with its tags and their digests
AllRepositories ==
    << [name |-> ImageName(<<"org">>, <<"proj">>, "img1"),
        tags |-> << <<"latest", "d1">>, <<"v1", "d1">> >>],
       [name |-> ImageName(<<"org">>, <<"proj", "2">>, "img"),
        tags |-> << <<"latest", "d2">> >>],
       [name |-> ImageName(<<"org">>, <<"proj">>, "img2"),
        tags |-> << <<"latest", "d3">>, <<"dev", "d4">> >>],
       [name |-> ImageName(<<"org">>, <<"proj">>, "img3"),
        tags |-> << <<"latest", "d5">>, <<"dev", "d6">> >>],
       [name |-> ImageName(<<"org">>, <<"proj">>, "img4"),
        tags |-> << <<"latest", "d7">> >>],
       [name |-> ImageName(<<"org">>, <<"proj">>, "img5"),
        tags |-> <<>>],
       [name |-> ImageName(<<"org", "2">>, <<"proj">>, "img"),
        tags |-> << <<"latest", "d8">> >>] >>

\* ProjectDeleter.PROJECT_REMOVE
ProjectRemove == "project-remove"

\* the events of the stream, without their tags
EventKinds ==
    { [event_type |-> ProjectRemove, org |-> <<"org">>, project |-> <<"proj">>],
      [event_type |-> ProjectRemove, org |-> <<>>, project |-> <<"proj">>],
      [event_type |-> "project-add", org |-> <<"org">>, project |-> <<"proj">>] }

\* the tag of the i-th event of the stream
EventTag(i) == "tag" \o ToString(i)

\* list_images: the images yielded for org and project from the catalog;
\* RegistryApiClient reads the names as they are and keeps those that start
\* with f"{org}/{project}/"; UpstreamV2ApiClient reads them under _repo_prefix,
\* keeps those that start with str(self._repo_prefix / org / project) and
\* yields them without the prefix
ListImages(class, org, project, catalog) ==
    LET names == [i \in 1..Len(catalog) |-> catalog[i].name]
    IN  IF class = "RegistryApiClient"
        THEN SelectSeq(names,
                 LAMBDA image : IsPrefix(org \o <<"/">> \o project \o <<"/">>, image))
        ELSE LET upstream == [i \in 1..Len(names) |-> RepoPrefix \o names[i]]
                 kept == SelectSeq(upstream,
                             LAMBDA image :
                                 IsPrefix(RepoPrefix \o org \o <<"/">> \o project,
                                          image))
             IN  [i \in 1..Len(kept) |-> DropFirst(kept[i], Len(RepoPrefix))]

\* the tags and digests of an image: image_tags_list and image_digest
TagsOf(image, catalog) ==
    LET i == CHOOSE i \in 1..Len(catalog) : catalog[i].name = image
    IN  catalog[i].tags

\* _get_images_for_delete yielding every tag with its digest by itself
DigestTagsPerTag(image, tag_digests) ==
    [k \in 1..Len(tag_digests) |->
        [image |-> image,
         digest |-> tag_digests[k][2],
         tags |-> <<tag_digests[k][1]>>,
         status |-> "pending",
         tag_status |-> <<"none">>]]

\* _get_images_for_delete for one image: digest_tags.items(), each with the
\* state of its delete_image_manifest task
DigestTags(image, tag_digests) ==
    LET first == SelectSeq([i \in 1..Len(tag_digests) |-> i],
                     LAMBDA i : \A j \in 1..(i - 1) :
                                    tag_digests[j][2] # tag_digests[i][2])
    IN  [k \in 1..Len(first) |->
            LET digest == tag_digests[first[k]][2]
                with_digest == SelectSeq(tag_digests, LAMBDA td : td[2] = digest)
            IN  [image |-> image,
                 digest |-> digest,
                 tags |-> [j \in 1..Len(with_digest) |-> with_digest[j][1]],
                 status |-> "pending",
                 tag_status |-> [j \in 1..Len(with_digest) |-> "none"]]]

\* _get_images_for_delete: the (image, digest, tags) of the images from the i-th on
RECURSIVE ImagesForDelete(_, _, _)
ImagesForDelete(images, catalog, i) ==
    IF i > Len(images) THEN <<>>
    ELSE DigestTags(images[i], TagsOf(images[i], catalog))
         \o ImagesForDelete(images, catalog, i + 1)

\* a semaphore that never blocks
SemNeverLocked(value) == FALSE

\* asyncio.Semaphore.locked
SemLocked(value) == value <= 0

\* asyncio.gather that waits for every task and raises nothing
GatherNeverRaises(statuses) == FALSE

\* asyncio.gather raises as soon as one of its tasks has raised
GatherRaises(statuses) == \E j \in 1..Len(statuses) : statuses[j] = "failed"

\* asyncio.gather returning with the first task that has returned
GatherReturnsWithFirst(statuses) ==
    /\ ~ \E j \in 1..Len(statuses) : statuses[j] = "failed"
    /\ \E j \in 1..Len(statuses) : statuses[j] = "done"

\* asyncio.gather returns once every task has returned
GatherReturns(statuses) ==
    /\ ~GatherRaises(statuses)
    /\ \A j \in 1..Len(statuses) : statuses[j] \in {"done", "failed"}

\* the state of the deleter's variables while nothing is to be deleted
DeleterIdle ==
    /\ client = [class |-> "RegistryApiClient", is_upstream_gar |-> FALSE]
    /\ repositories = <<>>
    /\ events = <<>>
    /\ handled = 0
    /\ dpc = "idle"
    /\ enum = <<>>
    /\ tasks = <<>>
    /\ sem = DelSemSize
    /\ log = <<>>
    /\ acks = <<>>

-----------------------------------------------------------------------------
\* The upstream token caches.  Text that is joined or compared is a sequence
\* of pieces, a space being a piece of its own.

MaxTime == 3

MaxCalls == 2

MaxFetches == 2

DefaultExpiresIn == 60

\* Python's None, where a cached value or headers are expected
None == <<>>

\* self._cache.get(key) of the dict finding nothing
NoRecord == <<>>

\* the whole of expires_in, as with a ratio of 1
TimesNoRatio(expires_in) == expires_in

\* expires_in * expiration_ratio with expiration_ratio = 0.75, rounded up:
\* the clock of the model is integral, and now < x exactly when now < ceil(x)
TimesExpirationRatio(expires_in) == 0 - ((0 - expires_in * 3) \div 4)

\* ExpiringCache.get
CacheGetInclusive(c, key, time) ==
    LET record == IF key \in DOMAIN c THEN c[key] ELSE NoRecord
    IN  IF record # NoRecord /\ time <= record[2] THEN record[1] ELSE None

CacheGetIgnoringExpiry(c, key, time) ==
    LET record == IF key \in DOMAIN c THEN c[key] ELSE NoRecord
    IN  IF record # NoRecord THEN record[1] ELSE None

CacheGet(c, key, time) ==
    LET record == IF key \in DOMAIN c THEN c[key] ELSE NoRecord
    IN  IF record # NoRecord /\ time < record[2] THEN record[1] ELSE None

\* ExpiringCache.put
CachePutOnly(c, key, value, expires_at) ==
    [k \in {key} |-> <<value, expires_at>>]

CachePut(c, key, value, expires_at) ==
    [k \in DOMAIN c \cup {key} |->
        IF k = key THEN <<value, expires_at>> ELSE c[k]]

\* " ".join(scopes)
RECURSIVE Join(_)
Join(scopes) ==
    IF scopes = <<>> THEN <<>>
    ELSE IF Len(scopes) = 1 THEN scopes[1]
    ELSE scopes[1] \o <<" ">> \o Join(Tail(scopes))

\* self._repository_scope_template.format(repo=repo), with the default
\* token_repository_scope_actions
RepositoryScope(repo) == <<"repository:">> \o repo \o <<":*">>

\* UpstreamRegistryConfig.token_registry_catalog_scope
RegistryCatalogScope == <<"registry:catalog:*">>

\* the repositories of the requests; the last one is the repository named
\* "a:* repository:b"
TokenRepos == {<<"a">>, <<"a", ":*", " ", "repository:", "b">>}

\* the calls of get_headers_for_version, get_headers_for_catalog and
\* get_headers_for_repo
HeaderCalls ==
    [kind : {"version", "catalog"}, repo : {<<>>}, mounted_repo : {<<>>}]
    \cup [kind : {"repo"}, repo : TokenRepos, mounted_repo : {<<>>}]
    \cup {[kind |-> "repo", repo |-> <<"a">>, mounted_repo |-> <<"b">>]}

\* the calls made on each upstream: the version call is exercised on ECR,
\* where the three operations share one entry
CallsFor(upstream) ==
    IF upstream = "oauth" THEN {h \in HeaderCalls : h.kind # "version"}
    ELSE {h \in HeaderCalls : h.mounted_repo = <<>>}

\* the scopes that get_headers_for_version, get_headers_for_catalog and
\* get_headers_for_repo pass to _get_headers
Scopes(call) ==
    CASE call.kind = "version" -> <<>>
      [] call.kind = "catalog" -> <<RegistryCatalogScope>>
      [] call.kind = "repo" ->
            <<RepositoryScope(call.repo)>>
            \o (IF call.mounted_repo # <<>>
                THEN <<RepositoryScope(call.mounted_repo)>> ELSE <<>>)

\* a key made of the scopes for every upstream
CacheKeyJoined(upstream, scopes) == Join(scopes)

\* the key under which _get_headers looks the headers up
CacheKey(upstream, scopes) ==
    IF upstream = "oauth" THEN Join(scopes) ELSE <<"*">>

\* the payloads of the token endpoint: token or not, expires_in and
\* issued_at given or not
OAuthPayloads ==
    [token : BOOLEAN]
    \cup [token : {TRUE}, expires_in : {4}]
    \cup [token : {TRUE}, expires_in : {4}, issued_at : {0}]

\* the payloads of get_authorization_token at the given time: without
\* authorizationData, or with a token expiring at expiresAt
ECRPayloads(time) ==
    {[authorizationData |-> FALSE]}
    \cup [authorizationData : {TRUE}, expiresAt : {time, time + 4}]

\* OAuthToken.create_from_payload: the token, or the exception it raises
OAuthTokenWithoutCheck(payload, text, time) ==
    LET expires_in == IF "expires_in" \in DOMAIN payload
                      THEN payload.expires_in ELSE DefaultExpiresIn
        issued_at == IF "issued_at" \in DOMAIN payload
                     THEN payload.issued_at ELSE time
    IN  [access_token |-> text,
         expires_at |-> issued_at + TimesExpirationRatio(expires_in)]

OAuthTokenFromPayload(payload, text, time) ==
    IF ~payload.token THEN [failure |-> "no access token"]
    ELSE LET expires_in == IF "expires_in" \in DOMAIN payload
                           THEN payload.expires_in ELSE DefaultExpiresIn
             issued_at == IF "issued_at" \in DOMAIN payload
                          THEN payload.issued_at ELSE time
         IN  [access_token |-> text,
              expires_at |-> issued_at + TimesExpirationRatio(expires_in)]

\* AWSECRAuthToken.create_from_payload: the token, or the exception it raises
AWSECRAuthTokenFromPayload(payload, text, time) ==
    IF ~payload.authorizationData THEN [failure |-> "invalid payload"]
    ELSE LET issued_at == time
             expires_in == payload.expiresAt - issued_at
             expires_at == issued_at + TimesExpirationRatio(expires_in)
         IN  IF issued_at >= expires_at THEN [failure |-> "already expired"]
             ELSE [access_token |-> text, expires_at |-> expires_at]

\* the headers _get_headers builds from the token
HeadersOf(upstream, token) ==
    <<IF upstream = "oauth" THEN "Bearer" ELSE "Basic", token.access_token>>

NoCall ==
    [pc |-> "idle", kind |-> "", scopes |-> <<>>, key |-> <<>>, n |-> 0,
     seen |-> NoRecord]

NoGot == [key |-> <<>>, result |-> None]

NoReturn ==
    [outcome |-> "", kind |-> "", scopes |-> <<>>,
     payload |-> [token |-> FALSE], headers |-> None]

\* the state of the token caches' variables while no cache is exercised
TokenIdle ==
    /\ strategy = "basic"
    /\ now = 0
    /\ cache = <<>>
    /\ calls = [c \in 1..MaxCalls |-> NoCall]
    /\ fetches = 0
    /\ last_put = <<>>
    /\ got = NoGot
    /\ returned = NoReturn

-----------------------------------------------------------------------------
\* Handlers.

Init ==
    /\ config \in Configs
    /\ request = NoRequest
    /\ granted = {}
    /\ pc = "idle"
    /\ registry_repo_url = NoRepoURL
    /\ upstream_repo_url = NoRepoURL
    /\ sent = <<>>
    /\ response = NoResponse
    /\ CatalogIdle
    /\ DeleterIdle
    /\ TokenIdle
    /\ TagsIdle
    /\ NamesIdle

\* a request arrives and is routed
Receive ==
    /\ pc = "idle"
    /\ \E req \in Requests :
        /\ request' = req
        /\ pc' = Route(req)
    /\ UNCHANGED <<config, granted, registry_repo_url, upstream_repo_url, sent,
                   response>>
    /\ UNCHANGED cvars
    /\ UNCHANGED <<dvars, tvars, gvars, nvars>>

Fail(resp) ==
    /\ response' = resp
    /\ pc' = "done"

\* the response to a request whose handler lets the ValueError of
\* RepoURL.from_url through: nothing in the handlers catches it
FromUrlFailureBadRequest == ErrorResponse("HTTPBadRequest")

FromUrlFailure == ErrorResponse("ValueError")

\* V2Handler.handle up to the permission check
HandleCheckPermissions ==
    /\ pc = "handle"
    /\ LET repo_url == FromUrl(request.url)
           permissions == HandlePermissions(request, repo_url)
       IN  /\ registry_repo_url' = repo_url
           /\ IF ~repo_url.valid
              THEN /\ granted' = granted
                   /\ Fail(FromUrlFailure)
              ELSE IF AllowSkipPerms(repo_url)
              THEN /\ granted' = granted
                   /\ pc' = "create_repo"
                   /\ UNCHANGED response
              ELSE \E approved \in SUBSET permissions :
                     /\ granted' = IF CheckAuthorized(request) = "ok"
                                   THEN approved ELSE {}
                     /\ LET resp == CheckUserPermissions(request, permissions, approved)
                        IN  IF resp = NoResponse
                            THEN pc' = "create_repo" /\ UNCHANGED response
                            ELSE Fail(resp)
    /\ UNCHANGED <<config, request, upstream_repo_url, sent>>
    /\ UNCHANGED cvars
    /\ UNCHANGED <<dvars, tvars, gvars, nvars>>

\* V2Handler.handle: create_upstream_repo_url, then Upstream.create_repo on a push
HandleCreateRepo ==
    /\ pc = "create_repo"
    /\ LET up == CreateUpstreamRepoUrl(registry_repo_url, config)
       IN  /\ upstream_repo_url' = up
           /\ sent' = IF ~IsPullRequest(request) /\ config.type = "aws_ecr"
                      THEN Append(sent, [op |-> "create_repository", repo |-> up.repo,
                                         url |-> NoURL])
                      ELSE sent
    /\ pc' = "get_headers_for_repo"
    /\ UNCHANGED <<config, request, granted, registry_repo_url, response>>
    /\ UNCHANGED cvars
    /\ UNCHANGED <<dvars, tvars, gvars, nvars>>

\* the handler's position once it has the upstream headers
AfterGetHeaders ==
    IF Route(request) = "handle_repo_tags_list" THEN "tags_list_request"
    ELSE "proxy_request"

\* the response to a request whose handler lets the ValueError of
\* OAuthToken.create_from_payload through
GetTokenFailureBadGateway == [status |-> 502, www_authenticate |-> ""]

GetTokenFailure == ErrorResponse("ValueError")

\* Upstream.get_headers_for_repo: a token is fetched unless the strategy is
\* basic or the cache holds an unexpired entry; the OAuth endpoint may answer
\* without a token, and create_from_payload then raises
GetHeadersForRepo ==
    /\ pc = "get_headers_for_repo"
    /\ \E hit \in BOOLEAN, payload \in [token : BOOLEAN] :
        LET get_token == [op |-> "get_token", repo |-> upstream_repo_url.repo,
                          url |-> NoURL, payload |-> payload]
            text == [scopes |-> <<RepositoryScope(upstream_repo_url.repo)>>,
                     n |-> 0]
        IN  IF config.type = "basic" \/ hit
            THEN /\ payload.token
                 /\ sent' = sent
                 /\ pc' = AfterGetHeaders
                 /\ UNCHANGED response
            ELSE IF /\ config.type = "oauth"
                    /\ "failure" \in DOMAIN OAuthTokenFromPayload(payload, text, now)
            THEN /\ sent' = Append(sent, get_token)
                 /\ Fail(GetTokenFailure)
            ELSE /\ payload.token
                 /\ sent' = Append(sent, get_token)
                 /\ pc' = AfterGetHeaders
                 /\ UNCHANGED response
    /\ UNCHANGED <<config, request, granted, registry_repo_url, upstream_repo_url>>
    /\ UNCHANGED cvars
    /\ UNCHANGED <<dvars, tvars, gvars, nvars>>

\* the Location headers an upstream may answer a POST with: the upload at
\* the requested URL (absolute on the upstream host, and relative), a
\* redirect to a third party, and an upload URL of a passthrough pattern
UploadPath(path) ==
    IF path[Len(path)] = ""
    THEN SubSeq(path, 1, Len(path) - 1) \o <<"uuid">>
    ELSE path

UpstreamLocations(url) ==
    {[origin |-> "upstream", path |-> UploadPath(url.path), query |-> NoQuery],
     [origin |-> "", path |-> UploadPath(url.path), query |-> NoQuery],
     [origin |-> "s3", path |-> <<"bucket", "blob">>, query |-> NoQuery],
     [origin |-> "upstream",
      path |-> <<"artifacts-uploads", "namespaces", Project, "repositories",
                 "img", "uploads", "id">>,
      query |-> NoQuery]}

\* the upstream's answers to a proxied request: a status, and after a POST
\* possibly 202 with a Location header (NoURL: no Location header)
UpstreamAnswers(req, url) ==
    [status : UpstreamStatuses, location : {NoURL}]
    \cup (IF req.method = "POST"
          THEN [status : {202}, location : UpstreamLocations(url)]
          ELSE {})

\* request.headers: what the caller sent, by header name (a CIMultiDict:
\* the names are compared without regard to case)
RequestHeaders(req) ==
    LET common == ("Host" :> "registry") @@ ("Connection" :> "keep-alive")
                  @@ ("Accept" :> "*/*")
        body == IF req.method \in {"POST", "PUT", "PATCH"}
                THEN ("Transfer-Encoding" :> "chunked")
                     @@ ("Content-Type" :> "application/octet-stream")
                ELSE <<>>
        auth == CASE req.authorization = "valid" ->
                       ("Authorization" :> "Basic caller")
                  [] req.authorization = "malformed" ->
                       ("Authorization" :> "malformed")
                  [] OTHER -> <<>>
    IN  common @@ body @@ auth

\* the headers get_headers_for_version / _catalog / _repo return: Basic
\* with the configured credentials, Bearer with the OAuth access token,
\* Basic with the ECR authorization token
AuthHeaders(type) ==
    "Authorization" :> (CASE type = "basic" -> "Basic upstream"
                          [] type = "oauth" -> "Bearer access_token"
                          [] OTHER -> "Basic authorizationToken")

\* V2Handler._prepare_request_headers
PrepareRequestHeadersSetdefault(headers, auth_headers) ==
    LET kept == DOMAIN headers \ {"Host", "Transfer-Encoding", "Connection"}
    IN  [name \in kept \cup DOMAIN auth_headers |->
            IF name \in kept THEN headers[name] ELSE auth_headers[name]]

PrepareRequestHeaders(headers, auth_headers) ==
    LET kept == DOMAIN headers \ {"Host", "Transfer-Encoding", "Connection"}
    IN  [name \in kept \cup DOMAIN auth_headers |->
            IF name \in DOMAIN auth_headers THEN auth_headers[name]
            ELSE headers[name]]

\* the request sent to the upstream, with the Location of its answer if any
ProxiedRequest(req, url, answer) ==
    LET headers == PrepareRequestHeaders(RequestHeaders(req),
                                         AuthHeaders(config.type))
    IN  IF answer.location = NoURL
        THEN [op |-> req.method, repo |-> <<>>, url |-> url,
              headers |-> headers]
        ELSE [op |-> req.method, repo |-> <<>>, url |-> url,
              headers |-> headers, location |-> answer.location]

\* V2Handler._convert_location_header; NoURL where it raises ValueError
ConvertLocationHeader(url_raw) ==
    IF url_raw.origin \notin {"", "upstream", "registry"}
    THEN url_raw
    ELSE LET upstream_repo_url_ == FromUrl(url_raw)
         IN  IF ~upstream_repo_url_.valid THEN NoURL
             ELSE IF AllowSkipPerms(upstream_repo_url_) THEN url_raw
             ELSE CreateRegistryRepoUrl(upstream_repo_url_).url

\* V2Handler._prepare_response_headers and the StreamResponse: the status
\* and the converted Location; 500 where the conversion raises
ProxiedResponse(answer) ==
    IF answer.location = NoURL
    THEN [status |-> answer.status, www_authenticate |-> ""]
    ELSE IF ConvertLocationHeader(answer.location) = NoURL
    THEN [status |-> StatusServerError, www_authenticate |-> ""]
    ELSE [status |-> answer.status, www_authenticate |-> "",
          location |-> ConvertLocationHeader(answer.location)]

\* UpstreamV2ApiClient.proxy_request: the Location header it returns
ClientProxyLocation(location_url, request_origin) ==
    IF location_url.origin # ""
    THEN [location_url EXCEPT !.origin = request_origin]
    ELSE [location_url EXCEPT !.origin = "upstream"]

\* the failure codes BatchDeleteImage reports, and how many failures one
\* answer lists
FailureCodes == {"ImageNotFound", "RepositoryNotFound", "LimitExceeded"}

MaxFailures == 2

Sha256References == {"sha256:abcd"}

\* reference.startswith("sha256:")
StartsWithSha256(reference) == reference \in Sha256References

\* V2Handler._delete_aws_ecr_image: image_ids
ImageIds(reference) ==
    IF StartsWithSha256(reference)
    THEN <<[imageDigest |-> reference]>>
    ELSE <<[imageTag |-> reference]>>

\* the answers of ECR's BatchDeleteImage, without their ResponseMetadata: the
\* images deleted, or the failures
BatchDeleteImageAnswers(image_ids) ==
    {[imageIds |-> image_ids, failures |-> <<>>]}
    \cup {[imageIds |-> <<>>, failures |-> failures] :
            failures \in UNION {[1..n -> [failureCode : FailureCodes]] :
                                    n \in 1..MaxFailures}}

\* how delete_repository(force=False) ends in _delete_aws_ecr_repository
DeleteRepositoryOutcomes == {"ok", "RepositoryNotEmptyException"}

\* what an ECR repository may hold when the proxy looks at it: tagged and
\* untagged images
MaxEcrImages == 1

EcrRepositories == [tagged : 0..MaxEcrImages, untagged : 0..MaxEcrImages]

\* ECR's DeleteRepository: without force it fails if there are some images
EcrDeleteRepository(held, force) ==
    IF held.tagged + held.untagged > 0 /\ ~force
    THEN "RepositoryNotEmptyException"
    ELSE "ok"

\* V2Handler._delete_aws_ecr_repository: the call and how it ended
DeleteAwsEcrRepositoryForce(repository_name, held) ==
    [op |-> "delete_repository", repo |-> repository_name, url |-> NoURL,
     force |-> TRUE, held |-> held, outcome |-> EcrDeleteRepository(held, TRUE)]

DeleteAwsEcrRepository(repository_name, held) ==
    [op |-> "delete_repository", repo |-> repository_name, url |-> NoURL,
     force |-> FALSE, held |-> held, outcome |-> EcrDeleteRepository(held, FALSE)]

\* ECR's ListImages with filter tagStatus TAGGED: the number of imageIds of
\* the page and whether a nextToken comes with it
EcrListImages(held) ==
    {[imageIds |-> listed, nextToken |-> listed < held.tagged] :
        listed \in 0..held.tagged}

\* convert_upstream_response deciding by the last failure rather than the
\* first
ConvertUpstreamResponseLastFailure(upstream_response) ==
    IF Len(upstream_response.failures) = 0
    THEN [status |-> 202, www_authenticate |-> "",
          content |-> [imageIds |-> upstream_response.imageIds]]
    ELSE LET failure ==
                upstream_response.failures[Len(upstream_response.failures)]
         IN  CASE failure.failureCode = "ImageNotFound" ->
                    [status |-> 404, www_authenticate |-> "",
                     content |-> [errors |-> <<[code |-> "NAME_INVALID",
                                    message |-> "Invalid image name"]>>]]
               [] failure.failureCode = "RepositoryNotFound" ->
                    [status |-> 404, www_authenticate |-> "",
                     content |-> [errors |-> <<[code |-> "NAME_UNKNOWN",
                        message |-> "Repository name not known to registry"]>>]]
               [] OTHER ->
                    [status |-> StatusServerError, www_authenticate |-> "",
                     content |-> [errors |-> <<[code |-> 0,
                                    message |-> failure.failureCode]>>]]

\* AWSECRUpstream.convert_upstream_response and the json_response built
\* from it: the status, and the content, which on success is what is left of
\* the answer once ResponseMetadata, failures and repository are popped; on
\* a failure the errors list holds one entry (its detail is left out)
ConvertUpstreamResponse(upstream_response) ==
    IF Len(upstream_response.failures) = 0
    THEN [status |-> 202, www_authenticate |-> "",
          content |-> [imageIds |-> upstream_response.imageIds]]
    ELSE LET failure == upstream_response.failures[1]
         IN  CASE failure.failureCode = "ImageNotFound" ->
                    [status |-> 404, www_authenticate |-> "",
                     content |-> [errors |-> <<[code |-> "NAME_INVALID",
                                    message |-> "Invalid image name"]>>]]
               [] failure.failureCode = "RepositoryNotFound" ->
                    [status |-> 404, www_authenticate |-> "",
                     content |-> [errors |-> <<[code |-> "NAME_UNKNOWN",
                        message |-> "Repository name not known to registry"]>>]]
               [] OTHER ->
                    [status |-> StatusServerError, www_authenticate |-> "",
                     content |-> [errors |-> <<[code |-> 0,
                                    message |-> failure.failureCode]>>]]

\* V2Handler._proxy_request
ProxyRequest ==
    /\ pc = "proxy_request"
    /\ LET path == request.url.path
           url == IF Route(request) = "handle_version_check"
                  THEN [origin |-> "upstream", path |-> <<"v2", "">>, query |-> NoQuery]
                  ELSE upstream_repo_url.url
       IN  IF /\ request.method = "DELETE"
              /\ config.type = "aws_ecr"
              /\ Len(path) >= 2
              /\ path[Len(path) - 1] = "manifests"
           THEN LET repository_name == <<Project>> \o SubSeq(path, 2, Len(path) - 2)
                    image_ids == ImageIds(path[Len(path)])
                IN  \E upstream_response \in BatchDeleteImageAnswers(image_ids),
                       held \in EcrRepositories :
                      /\ sent' = sent \o
                           << [op |-> "batch_delete_image",
                               repo |-> repository_name, url |-> NoURL,
                               image_ids |-> image_ids,
                               answer |-> upstream_response],
                              DeleteAwsEcrRepository(repository_name, held) >>
                      /\ response' = ConvertUpstreamResponse(upstream_response)
           ELSE \E answer \in UpstreamAnswers(request, url) :
                   /\ sent' = Append(sent, ProxiedRequest(request, url, answer))
                   /\ response' = ProxiedResponse(answer)
    /\ pc' = "done"
    /\ UNCHANGED <<config, request, granted, registry_repo_url, upstream_repo_url>>
    /\ UNCHANGED cvars
    /\ UNCHANGED <<dvars, tvars, gvars, nvars>>

\* V2Handler.handle_repo_tags_list up to the permission check
TagsListCheckPermissions ==
    /\ pc = "handle_repo_tags_list"
    /\ LET repo_url == FromUrl(request.url)
           permissions == {Permission(repo_url.repo, "read")}
       IN  /\ registry_repo_url' = repo_url
           /\ \E approved \in SUBSET permissions :
                /\ granted' = IF CheckAuthorized(request) = "ok" THEN approved ELSE {}
                /\ LET resp == CheckUserPermissions(request, permissions, approved)
                   IN  IF resp # NoResponse
                       THEN Fail(resp) /\ UNCHANGED upstream_repo_url
                       ELSE IF config.type = "aws_ecr"
                       THEN pc' = "aws_ecr_tags_list"
                            /\ UNCHANGED <<response, upstream_repo_url>>
                       ELSE /\ pc' = "get_headers_for_repo"
                            /\ upstream_repo_url' =
                                   CreateUpstreamRepoUrl(repo_url, config)
                            /\ UNCHANGED response
    /\ UNCHANGED <<config, request, sent>>
    /\ UNCHANGED cvars
    /\ UNCHANGED <<dvars, tvars, gvars, nvars>>

\* the name of the repository in an upstream tags-list URL
UpstreamRepoName(url) == SubSeq(url.path, 2, Len(url.path) - 2)

\* what the upstream answers to a tags-list request: the tags after the
\* query's last, at most n of them, with a Link rel=next (relative, to its
\* own URL, with the cursor) when tags remain; all the tags when no n is
\* asked; or an error, whose body names the repository in detail.name, has
\* an entry whose detail names nothing, or is not JSON
TagsListAnswers(url, tags) ==
    LET name == UpstreamRepoName(url)
        paged == "n" \in DOMAIN url.query
        start == IF paged
                 THEN Cardinality({i \in 1..Len(tags) :
                                        tags[i] <= url.query.last})
                 ELSE 0
        end == IF paged THEN Min({start + url.query.n, Len(tags)})
               ELSE Len(tags)
        link == IF paged /\ end < Len(tags)
                THEN [origin |-> "", path |-> url.path,
                      query |-> [url.query EXCEPT !.last = tags[end]]]
                ELSE NoURL
        unknown == [code |-> "NAME_UNKNOWN", detail |-> [name |-> name]]
    IN  {[status |-> 200,
          body |-> [name |-> name, tags |-> SubSeq(tags, start + 1, end)],
          link |-> link],
         [status |-> 404, body |-> [errors |-> <<unknown>>], link |-> NoURL],
         [status |-> 404,
          body |-> [errors |-> <<[code |-> "UNKNOWN", detail |-> <<>>],
                                 unknown>>],
          link |-> NoURL],
         [status |-> 404, body |-> [text |-> "404 page not found"],
          link |-> NoURL]}

\* V2Handler._fixup_repo_name
FixupRepoNameOnlyName(data, repo) ==
    IF "name" \in DOMAIN data THEN [data EXCEPT !.name = repo] ELSE data

FixupRepoName(data, repo) ==
    LET fixed == IF "errors" \in DOMAIN data
                 THEN [data EXCEPT !.errors =
                        [i \in DOMAIN data.errors |->
                            LET error == data.errors[i]
                            IN  IF /\ "detail" \in DOMAIN error
                                   /\ "name" \in DOMAIN error.detail
                                THEN [error EXCEPT !.detail.name = repo]
                                ELSE error]]
                 ELSE data
    IN  IF "name" \in DOMAIN fixed THEN [fixed EXCEPT !.name = repo]
        ELSE fixed

\* registry_repo_url.url.with_query(URL(next_upstream_url).query)
NextRegistryUrlSameQuery(registry_url, next_upstream_url) == registry_url.url

NextRegistryUrl(registry_url, next_upstream_url) ==
    [registry_url.url EXCEPT !.query = next_upstream_url.query]

\* the response _handle_generic_tags_list builds from the upstream's
GenericTagsListResponse(registry_url, answer) ==
    [status |-> answer.status, www_authenticate |-> "",
     link |-> IF answer.link # NoURL
              THEN NextRegistryUrl(registry_url, answer.link)
              ELSE NoURL,
     content |-> IF "text" \in DOMAIN answer.body THEN answer.body
                 ELSE FixupRepoName(answer.body, registry_url.repo)]

\* V2Handler._handle_generic_tags_list: the upstream request and its response
GenericTagsList ==
    /\ pc = "tags_list_request"
    /\ \E answer \in TagsListAnswers(upstream_repo_url.url, upstream_tags) :
         /\ sent' = Append(sent, [op |-> request.method, repo |-> <<>>,
                                  url |-> upstream_repo_url.url,
                                  headers |-> PrepareRequestHeaders(
                                                 RequestHeaders(request),
                                                 AuthHeaders(config.type)),
                                  answer |-> answer])
         /\ response' = GenericTagsListResponse(registry_repo_url, answer)
    /\ pc' = "done"
    /\ UNCHANGED <<config, request, granted, registry_repo_url, upstream_repo_url>>
    /\ UNCHANGED cvars
    /\ UNCHANGED <<dvars, tvars, gvars, nvars>>

\* the response _handle_aws_ecr_tags_list builds from the listing
EcrTagsListResponse(registry_url, listing) ==
    [status |-> 200, www_authenticate |-> "",
     content |-> [name |-> registry_url.repo, tags |-> listing.imageIds],
     link |-> IF listing.nextToken
              THEN [registry_url.url EXCEPT !.query = NextQuery]
              ELSE NoURL]

\* V2Handler._handle_aws_ecr_tags_list: list_images, and delete_repository
\* when the first page holds no tag
AwsEcrTagsList ==
    /\ pc = "aws_ecr_tags_list"
    /\ LET path == request.url.path
           aws_repository == <<Project>> \o SubSeq(path, 2, Len(path) - 2)
           with_next == "next" \in DOMAIN registry_repo_url.url.query
           list_images == [op |-> "list_images", repo |-> aws_repository,
                           url |-> NoURL, with_next |-> with_next]
       IN  \/ \E held \in EcrRepositories :
                \E listing \in EcrListImages(held) :
                  /\ sent' = IF listing.imageIds = 0 /\ ~with_next
                             THEN sent \o
                                  <<list_images @@ [listing |-> listing],
                                    DeleteAwsEcrRepository(aws_repository, held)>>
                             ELSE Append(sent, list_images @@ [listing |-> listing])
                  /\ response' = EcrTagsListResponse(registry_repo_url, listing)
           \/ \E exception \in {"RepositoryNotFoundException", "ClientError"} :
                  /\ sent' = Append(sent, list_images)
                  /\ response' =
                       [status |-> IF exception = "RepositoryNotFoundException"
                                   THEN 404 ELSE 400,
                        www_authenticate |-> ""]
    /\ pc' = "done"
    /\ UNCHANGED <<config, request, granted, registry_repo_url, upstream_repo_url>>
    /\ UNCHANGED cvars
    /\ UNCHANGED <<dvars, tvars, gvars, nvars>>

\* V2Handler.handle_version_check up to the upstream headers
VersionCheck ==
    /\ pc = "handle_version_check"
    /\ LET resp == GetUserFromRequest(request)
       IN  IF resp # NoResponse
           THEN Fail(resp) /\ UNCHANGED sent
           ELSE /\ \E hit \in BOOLEAN :
                     sent' = IF config.type = "basic" \/ hit
                             THEN sent
                             ELSE Append(sent, [op |-> "get_token", repo |-> <<>>,
                                                url |-> NoURL])
                /\ pc' = "proxy_request"
                /\ UNCHANGED response
    /\ UNCHANGED <<config, request, granted, registry_repo_url, upstream_repo_url>>
    /\ UNCHANGED cvars
    /\ UNCHANGED <<dvars, tvars, gvars, nvars>>

\* the response is written, the handler returns and its locals are gone
Finish ==
    /\ pc = "done"
    /\ pc' = "idle"
    /\ request' = NoRequest
    /\ granted' = {}
    /\ registry_repo_url' = NoRepoURL
    /\ upstream_repo_url' = NoRepoURL
    /\ sent' = <<>>
    /\ response' = NoResponse
    /\ UNCHANGED config
    /\ UNCHANGED cvars
    /\ UNCHANGED <<dvars, tvars, gvars, nvars>>

Next ==
    \/ Receive
    \/ HandleCheckPermissions
    \/ HandleCreateRepo
    \/ GetHeadersForRepo
    \/ ProxyRequest
    \/ TagsListCheckPermissions
    \/ GenericTagsList
    \/ AwsEcrTagsList
    \/ VersionCheck
    \/ Finish

Spec == Init /\ [][Next]_vars

-----------------------------------------------------------------------------
\* Properties of request handling (specification Spec).

\* POST /v2/{repo}/blobs/uploads/?from={other}
IsCrossRepoMount(req) ==
    /\ req.method = "POST"
    /\ req.url.query.has_from
    /\ req.url.query.from # <<>>
    /\ Len(req.url.path) >= 5
    /\ req.url.path[1] = "v2"
    /\ SubSeq(req.url.path, Len(req.url.path) - 2, Len(req.url.path))
         = <<"blobs", "uploads", "">>

\* the {repo} of a cross-repo mount
MountTarget(req) == SubSeq(req.url.path, 2, Len(req.url.path) - 3)

MountPermissions(req) ==
    {Permission(MountTarget(req), "write"), Permission(req.url.query.from, "read")}

\* the permissions the handler of a request asks the authorization service
\* for: none when from_url raises before
AskedPermissions(req) ==
    CASE ~FromUrl(req.url).valid -> {}
      [] Route(req) = "handle" /\ ~MatchSkipPermsPathRe(req.url) ->
             HandlePermissions(req, FromUrl(req.url))
      [] Route(req) = "handle_repo_tags_list" ->
             {Permission(FromUrl(req.url).repo, "read")}
      [] OTHER -> {}

\* C1 as stated: for every cross-repo blob mount, something is sent upstream
\* only if write on the target and read on the source were both granted, and
\* a refused mount ends rejected with nothing sent.
C1_AnyMountNeedsBothPermissions ==
    IsCrossRepoMount(request) =>
        /\ sent # <<>> => MountPermissions(request) \subseteq granted
        /\ (pc = "done" /\ ~(MountPermissions(request) \subseteq granted)) =>
               sent = <<>> /\ response.status \in {401, 403, 500}

\* C1 amended: the same, for a cross-repo blob mount whose path matches no
\* passthrough pattern (a passthrough path is forwarded without any check).
C1_MountNeedsBothPermissions ==
    (IsCrossRepoMount(request) /\ ~MatchSkipPermsPathRe(request.url)) =>
        /\ sent # <<>> => MountPermissions(request) \subseteq granted
        /\ (pc = "done" /\ ~(MountPermissions(request) \subseteq granted)) =>
               sent = <<>> /\ response.status \in {401, 403, 500}

\* C1 witness: a mount by an authenticated caller holding write on the target
\* but refused read on the source has been rejected with nothing sent.
C1_Witness ==
    /\ pc = "done"
    /\ IsCrossRepoMount(request)
    /\ ~MatchSkipPermsPathRe(request.url)
    /\ request.authorization = "valid"
    /\ granted = {Permission(MountTarget(request), "write")}
    /\ response.status = 403
    /\ sent = <<>>

\* C3 as stated, for the version check, the tags list and the repo paths: a
\* request without credentials is answered 401 with WWW-Authenticate: Basic
\* realm="{server name}", one with a malformed Authorization header 400, and
\* in both cases nothing is sent upstream.
C3_UnauthenticatedRejected ==
    pc = "done" =>
        /\ request.authorization = "none" =>
               response = RaiseUnauthorized /\ sent = <<>>
        /\ request.authorization = "malformed" =>
               response.status = 400 /\ sent = <<>>

\* C4 as stated: a refused permission of an authenticated caller on a repo
\* path is answered 401 and the request is not forwarded.
C4_RefusedIs401 ==
    (/\ pc = "done"
     /\ request.authorization = "valid"
     /\ ~(AskedPermissions(request) \subseteq granted)) =>
        response.status = 401 /\ sent = <<>>

\* C4 amended: a refused permission of an authenticated caller on a repo path
\* is answered 403 (HTTPForbidden passes through unchanged, without a
\* WWW-Authenticate header) and the request is not forwarded.
C4_RefusedIs403 ==
    (/\ pc = "done"
     /\ request.authorization = "valid"
     /\ ~(AskedPermissions(request) \subseteq granted)) =>
        response = [status |-> 403, www_authenticate |-> ""] /\ sent = <<>>

\* C4 witness: an authenticated GET on a repo path whose read permission the
\* authorization service refused has been answered.
C4_Witness ==
    /\ pc = "done"
    /\ request.authorization = "valid"
    /\ request.method = "GET"
    /\ Route(request) = "handle"
    /\ AskedPermissions(request) # {}
    /\ granted = {}
    /\ response.status = 403

-----------------------------------------------------------------------------
\* The catalog handler and a client paging through the catalog.

CatalogRequests ==
    [method : {"GET"},
     url : {[origin |-> "registry", path |-> <<"v2", "_catalog">>,
             query |-> NoQuery]},
     authorization : Credentials]

\* a last token that names no entry of the upstream's catalog
UnknownName == <<"testproject", "alice", "gone">>

\* 27 images of alice, each followed by an image of bob
ManyImages ==
    [i \in 1..54 |->
        <<Project, IF i % 2 = 1 THEN "alice" ELSE "bob", "img" \o ToString(i)>>]

CatalogInit ==
    /\ config \in {c \in Configs : c.type = "basic"}
    /\ request \in CatalogRequests
    /\ granted = {}
    /\ pc = "idle"
    /\ registry_repo_url = NoRepoURL
    /\ upstream_repo_url = NoRepoURL
    /\ sent = <<>>
    /\ response = NoResponse
    /\ \/ /\ upstream_images \in Catalogs
          /\ upstream_honours_n \in BOOLEAN
          /\ tree \in Trees
          /\ max_catalog_entries \in 1..MaxCatalogEntries
          /\ page \in {CatalogPage(n, token) :
                          n \in 0..MaxN, token \in {<<>>, UnknownName}}
       \/ /\ config.upstream_repo = ""
          /\ upstream_images = ManyImages
          /\ upstream_honours_n = TRUE
          /\ tree = Node("list", "alice" :> Leaf("manage"))
          /\ max_catalog_entries = 1000
          /\ page = CatalogPage(10, <<>>)
    /\ cpc = "handle_catalog"
    /\ filtered = <<>>
    /\ index = 0
    /\ more_images = FALSE
    /\ last_token_is_correct = FALSE
    /\ last_token = <<>>
    /\ paging_url = NoPagingUrl
    /\ catalog_response = NoCatalogResponse
    /\ client_pages = <<>>
    /\ DeleterIdle
    /\ TokenIdle
    /\ TagsIdle
    /\ NamesIdle

\* the handler raises: the caller receives an error response
CatalogFail(status) ==
    /\ catalog_response' = [status |-> status, repositories |-> <<>>,
                            link |-> NoLink]
    /\ cpc' = "client"

\* handle_catalog up to the loop: the query is validated, the user is
\* authenticated, the permission tree and the first upstream URL are obtained
HandleCatalog ==
    /\ cpc = "handle_catalog"
    /\ IF page.number <= 0
       THEN /\ CatalogFail(StatusServerError)
            /\ UNCHANGED <<filtered, index, more_images, last_token_is_correct,
                           last_token, paging_url>>
       ELSE IF GetUserFromRequest(request) # NoResponse
       THEN /\ CatalogFail(GetUserFromRequest(request).status)
            /\ UNCHANGED <<filtered, index, more_images, last_token_is_correct,
                           last_token, paging_url>>
       ELSE /\ paging_url' = CreateUpstreamCatalogUrl(page)
            /\ filtered' = <<>>
            /\ index' = 0
            /\ more_images' = FALSE
            /\ last_token_is_correct' = FALSE
            /\ last_token' = <<>>
            /\ cpc' = "loop"
            /\ UNCHANGED catalog_response
    /\ UNCHANGED <<upstream_images, upstream_honours_n, tree, max_catalog_entries,
                   page, client_pages>>
    /\ UNCHANGED hvars
    /\ UNCHANGED <<dvars, tvars, gvars, nvars>>

\* one iteration of the while loop of handle_catalog
CatalogLoop ==
    /\ cpc = "loop"
    /\ paging_url.valid
    /\ Len(filtered) < page.number
    /\ LET number == Max({page.number - Len(filtered), max_catalog_entries})
           url == [paging_url EXCEPT !.number = number]
       IN  /\ sent' = Append(sent, [op |-> "GET", repo |-> <<>>, url |-> url])
           /\ \E answer \in UpstreamCatalog(upstream_images, upstream_honours_n, url) :
                IF answer.status # 200
                THEN /\ CatalogFail(IF answer.status = 404 THEN 404
                                    ELSE StatusServerError)
                     /\ last_token' = url.last
                     /\ paging_url' = url
                     /\ UNCHANGED <<filtered, index, more_images,
                                    last_token_is_correct>>
                ELSE IF answer.images = <<>>
                THEN /\ last_token' = url.last
                     /\ paging_url' = answer.next
                     /\ cpc' = "after_loop"
                     /\ UNCHANGED <<filtered, index, more_images,
                                    last_token_is_correct, catalog_response>>
                ELSE LET st == ForLoop(
                                 [filtered |-> filtered, index |-> index,
                                  more_images |-> more_images,
                                  last_token_is_correct |-> last_token_is_correct,
                                  last_token |-> url.last],
                                 FilterImages1Indexed(answer.images, tree, Project,
                                                      config.upstream_repo),
                                 1, answer.images, answer.next, page.number)
                     IN  /\ filtered' = st.filtered
                         /\ index' = st.index
                         /\ more_images' = st.more_images
                         /\ last_token_is_correct' = st.last_token_is_correct
                         /\ last_token' = st.last_token
                         /\ paging_url' = answer.next
                         /\ cpc' = "loop"
                         /\ UNCHANGED catalog_response
    /\ UNCHANGED <<upstream_images, upstream_honours_n, tree, max_catalog_entries,
                   page, client_pages>>
    /\ UNCHANGED <<config, request, granted, pc, registry_repo_url,
                   upstream_repo_url, response>>
    /\ UNCHANGED <<dvars, tvars, gvars, nvars>>

\* the condition of the while loop is false
CatalogLoopExit ==
    /\ cpc = "loop"
    /\ ~ (paging_url.valid /\ Len(filtered) < page.number)
    /\ cpc' = "after_loop"
    /\ UNCHANGED <<upstream_images, upstream_honours_n, tree, max_catalog_entries,
                   page, filtered, index, more_images, last_token_is_correct,
                   last_token, paging_url, catalog_response, client_pages>>
    /\ UNCHANGED hvars
    /\ UNCHANGED <<dvars, tvars, gvars, nvars>>

\* the request for the exact last token: n = index entries after last_token
CatalogExactLast ==
    /\ cpc = "after_loop"
    /\ more_images /\ ~last_token_is_correct
    /\ LET url == CreateUpstreamCatalogUrl(PageExactLast(index, last_token))
       IN  /\ sent' = Append(sent, [op |-> "GET", repo |-> <<>>, url |-> url])
           /\ \E answer \in UpstreamCatalog(upstream_images, upstream_honours_n, url) :
                IF answer.status # 200
                THEN /\ CatalogFail(IF answer.status = 404 THEN 404
                                    ELSE StatusServerError)
                     /\ UNCHANGED last_token
                ELSE /\ last_token' = answer.next.last
                     /\ cpc' = "respond"
                     /\ UNCHANGED catalog_response
    /\ UNCHANGED <<upstream_images, upstream_honours_n, tree, max_catalog_entries,
                   page, filtered, index, more_images, last_token_is_correct,
                   paging_url, client_pages>>
    /\ UNCHANGED <<config, request, granted, pc, registry_repo_url,
                   upstream_repo_url, response>>
    /\ UNCHANGED <<dvars, tvars, gvars, nvars>>

\* the response of handle_catalog, with the Link header when more_images and
\* last_token; the client receives it
CatalogRespond ==
    /\ \/ cpc = "respond"
       \/ cpc = "after_loop" /\ ~ (more_images /\ ~last_token_is_correct)
    /\ LET resp == [status |-> 200,
                    repositories |-> filtered,
                    link |-> IF more_images /\ last_token # <<>>
                             THEN [n |-> max_catalog_entries, last |-> last_token]
                             ELSE NoLink]
       IN  /\ catalog_response' = resp
           /\ client_pages' = Append(client_pages, resp)
    /\ cpc' = "client"
    /\ UNCHANGED <<upstream_images, upstream_honours_n, tree, max_catalog_entries,
                   page, filtered, index, more_images, last_token_is_correct,
                   last_token, paging_url>>
    /\ UNCHANGED hvars
    /\ UNCHANGED <<dvars, tvars, gvars, nvars>>

\* the client asks for the next page: the same n, the last of the Link
ClientFollowLink ==
    /\ cpc = "client"
    /\ catalog_response.status = 200
    /\ catalog_response.link # NoLink
    /\ page' = CatalogPage(page.number, catalog_response.link.last)
    /\ cpc' = "handle_catalog"
    /\ sent' = <<>>
    /\ UNCHANGED <<upstream_images, upstream_honours_n, tree, max_catalog_entries,
                   filtered, index, more_images, last_token_is_correct,
                   last_token, paging_url, catalog_response, client_pages>>
    /\ UNCHANGED <<config, request, granted, pc, registry_repo_url,
                   upstream_repo_url, response>>
    /\ UNCHANGED <<dvars, tvars, gvars, nvars>>

CatalogNext ==
    \/ HandleCatalog
    \/ CatalogLoop
    \/ CatalogLoopExit
    \/ CatalogExactLast
    \/ CatalogRespond
    \/ ClientFollowLink

CatalogSpec == CatalogInit /\ [][CatalogNext]_vars

-----------------------------------------------------------------------------
\* Properties of the catalog (specification CatalogSpec).

\* the images the caller may see, in upstream order, without the prefix
VisibleImages ==
    LET project_prefix == ProjectPrefix(Project, config.upstream_repo)
        visible == SelectSeq(upstream_images,
                     LAMBDA name :
                        /\ StartsWithPrefix(name, project_prefix)
                        /\ CheckImageCatalogPermission(
                               DropFirst(name, Len(project_prefix)), tree))
    IN  [i \in 1..Len(visible) |-> DropFirst(visible[i], Len(project_prefix))]

\* the repositories of the pages, concatenated
RECURSIVE Concatenated(_)
Concatenated(pages) ==
    IF pages = <<>> THEN <<>>
    ELSE Concatenated(SubSeq(pages, 1, Len(pages) - 1))
         \o pages[Len(pages)].repositories

\* the client started without a last token and pages through an upstream
\* that honours n
PagingFromStart ==
    /\ upstream_honours_n
    /\ request.authorization = "valid"
    /\ page.number >= 1
    /\ page.last_token # UnknownName

\* the client has received a page
PageReceived ==
    /\ cpc = "client"
    /\ catalog_response.status = 200

\* the client has received the last page: a page without a Link
LastPageReceived == PageReceived /\ catalog_response.link = NoLink

\* an entry of repositories is an upstream entry that has the project prefix,
\* without the prefix, and passes check_image_catalog_permission
FromVisibleUpstreamEntry(image) ==
    LET project_prefix == ProjectPrefix(Project, config.upstream_repo)
    IN  /\ \E j \in 1..Len(upstream_images) :
              upstream_images[j] = project_prefix \o image
        /\ CheckImageCatalogPermission(image, tree)

\* C2: for every sequence of upstream pages, every entry of repositories (and
\* of filtered at every step) comes from an upstream entry that starts with
\* the project prefix, with the prefix removed, and passes
\* check_image_catalog_permission
C2_OnlyVisibleImages ==
    /\ \A i \in 1..Len(filtered) : FromVisibleUpstreamEntry(filtered[i])
    /\ \A i \in 1..Len(catalog_response.repositories) :
          FromVisibleUpstreamEntry(catalog_response.repositories[i])
    /\ \A k \in 1..Len(client_pages) :
          \A i \in 1..Len(client_pages[k].repositories) :
              FromVisibleUpstreamEntry(client_pages[k].repositories[i])

\* a page with images was returned from an upstream catalog that also holds
\* an image of another project and an image the caller may not see, by an
\* upstream that does not honour n
C2_Witness ==
    /\ PageReceived
    /\ ~upstream_honours_n
    /\ Len(catalog_response.repositories) >= 1
    /\ \E j \in 1..Len(upstream_images) : upstream_images[j][1] # Project
    /\ \E j \in 1..Len(upstream_images) :
          /\ StartsWithPrefix(upstream_images[j],
                              ProjectPrefix(Project, config.upstream_repo))
          /\ ~CheckImageCatalogPermission(
                 DropFirst(upstream_images[j],
                           Len(ProjectPrefix(Project, config.upstream_repo))),
                 tree)

\* C5: with an upstream that honours n, the client that follows the Link
\* cursors with page size n receives, concatenated, a prefix of the visible
\* images at every page, all of them with the last page, and never an error
C5_PagingIsExact ==
    PagingFromStart =>
        /\ catalog_response.status \in {0, 200}
        /\ IsPrefix(Concatenated(client_pages), VisibleImages)
        /\ LastPageReceived => Concatenated(client_pages) = VisibleImages

\* the client received the visible images in three pages or more, from a
\* catalog that holds images it may not see
C5_Witness ==
    /\ PagingFromStart
    /\ LastPageReceived
    /\ Len(client_pages) >= 3
    /\ Len(VisibleImages) >= 3
    /\ Len(VisibleImages) < Len(upstream_images)
    /\ upstream_images # ManyImages

\* C6: whatever the upstream returns, handle_catalog never holds more than
\* page.number images in filtered, and never returns more than page.number
C6_NeverMoreThanRequested ==
    /\ Len(filtered) <= page.number
    /\ Len(catalog_response.repositories) <= page.number

\* the page is full although the upstream returned, in one page, more visible
\* images than were still missing
C6_Witness ==
    /\ cpc = "after_loop"
    /\ ~upstream_honours_n
    /\ page.number >= 2
    /\ Len(filtered) = page.number
    /\ more_images /\ ~last_token_is_correct
    /\ Len(VisibleImages) > page.number
    /\ Len(sent) = 1

\* the position in the upstream catalog of the last image the client received
LastListed ==
    PositionOf(ProjectPrefix(Project, config.upstream_repo)
                   \o catalog_response.repositories[
                          Len(catalog_response.repositories)],
               upstream_images)

\* C7 as stated: a page carries Link rel=next exactly when further visible
\* images follow it
C7_LinkIffVisibleFollow ==
    (PagingFromStart /\ PageReceived) =>
        ((catalog_response.link # NoLink)
            <=> (Len(Concatenated(client_pages)) < Len(VisibleImages)))

\* C7: a page carries Link rel=next exactly when it holds n images and the
\* upstream catalog holds further entries, visible or not, after the last of
\* them; so a page followed by visible images carries Link, a page of fewer
\* than n images never does, and 27 visible images among others come with
\* n = 10 as pages of 10, 10 and 7 with Link on the first two only
C7_LinkIffFullAndEntriesFollow ==
    (PagingFromStart /\ PageReceived) =>
        /\ (catalog_response.link # NoLink)
              <=> /\ Len(catalog_response.repositories) = page.number
                  /\ LastListed < Len(upstream_images)
        /\ Len(Concatenated(client_pages)) < Len(VisibleImages)
              => catalog_response.link # NoLink
        /\ Len(catalog_response.repositories) < page.number
              => catalog_response.link = NoLink
        /\ (upstream_images = ManyImages /\ LastPageReceived)
              => /\ [k \in 1..Len(client_pages) |->
                        Len(client_pages[k].repositories)] = <<10, 10, 7>>
                 /\ [k \in 1..Len(client_pages) |->
                        client_pages[k].link # NoLink] = <<TRUE, TRUE, FALSE>>

\* a full page carries Link although only images the caller may not see follow
C7_Witness ==
    /\ PagingFromStart
    /\ PageReceived
    /\ catalog_response.link # NoLink
    /\ Len(Concatenated(client_pages)) = Len(VisibleImages)
    /\ Len(VisibleImages) >= 2

\* the 27 visible images were received in three pages
C7_ManyImagesWitness ==
    /\ upstream_images = ManyImages
    /\ LastPageReceived
    /\ Len(client_pages) = 3

-----------------------------------------------------------------------------
\* ProjectDeleter and delete_project_images.

DeleterInit ==
    /\ config \in {c \in Configs : c.type = "basic" /\ c.upstream_repo = ""}
    /\ request = NoRequest
    /\ granted = {}
    /\ pc = "idle"
    /\ registry_repo_url = NoRepoURL
    /\ upstream_repo_url = NoRepoURL
    /\ sent = <<>>
    /\ response = NoResponse
    /\ CatalogIdle
    /\ TokenIdle
    /\ TagsIdle
    /\ NamesIdle
    /\ client \in [class : {"RegistryApiClient", "UpstreamV2ApiClient"},
                   is_upstream_gar : BOOLEAN]
    /\ \E k \in 0..(IF client.is_upstream_gar THEN MaxGarRepositories
                    ELSE MaxRepositories) :
          repositories = SubSeq(AllRepositories, 1, k)
    /\ events = <<>>
    /\ handled = 0
    /\ dpc = "idle"
    /\ enum = <<>>
    /\ tasks = <<>>
    /\ sem = DelSemSize
    /\ log = <<>>
    /\ acks = <<>>

\* no task of an earlier call is still to run
NoTaskLeft ==
    \A t \in 1..Len(tasks) :
        /\ tasks[t].status \in {"done", "failed"}
        /\ \A j \in 1..Len(tasks[t].tags) :
              tasks[t].tag_status[j] \notin {"pending", "deleting"}

\* the handling of the event ends
Handled(outcome) ==
    log' = Append(log, [event |-> handled', outcome |-> outcome])

\* ProjectDeleter._on_admin_event up to delete_project_images, for the next
\* event of the stream, which arrives when no task of an earlier call is
\* left; an UpstreamV2ApiClient is not driven by events: its
\* delete_project_images is called with an org and a project
OnAdminEvent ==
    /\ dpc = "idle"
    /\ handled < MaxEvents
    /\ NoTaskLeft
    /\ handled' = handled + 1
    /\ enum' = <<>>
    /\ tasks' = <<>>
    /\ \E kind \in EventKinds :
         LET ev == [tag |-> EventTag(handled + 1), event_type |-> kind.event_type,
                    org |-> kind.org, project |-> kind.project]
         IN  /\ events' = Append(events, ev)
             /\ IF client.class = "UpstreamV2ApiClient"
                THEN /\ ev.event_type = ProjectRemove /\ ev.org # <<>>
                     /\ dpc' = "delete_project_images" /\ UNCHANGED log
                ELSE IF ev.event_type # ProjectRemove
                THEN dpc' = "idle" /\ Handled("ignored")
                ELSE IF ev.org = <<>> \/ ev.project = <<>>
                THEN dpc' = "idle" /\ Handled("AssertionError")
                ELSE dpc' = "delete_project_images" /\ UNCHANGED log
    /\ UNCHANGED <<client, repositories, sem, acks>>
    /\ UNCHANGED <<hvars, cvars, tvars, gvars, nvars>>

\* the requests _get_images_for_delete makes, in the order of its loops: the
\* catalog (one page holds every repository), then for each image of the
\* project its tags list and the manifest of each of its tags
RECURSIVE EnumerationOf(_, _, _)
EnumerationOf(images, catalog, i) ==
    IF i > Len(images) THEN <<>>
    ELSE LET tag_digests == TagsOf(images[i], catalog)
         IN  <<[op |-> "tags_list", image |-> images[i], tag |-> ""]>>
             \o [k \in 1..Len(tag_digests) |->
                    [op |-> "manifest", image |-> images[i],
                     tag |-> tag_digests[k][1]]]
             \o EnumerationOf(images, catalog, i + 1)

Enumeration(class, ev, catalog) ==
    <<[op |-> "catalog", image |-> <<>>, tag |-> ""]>>
    \o EnumerationOf(ListImages(class, ev.org, ev.project, catalog), catalog, 1)

\* `await`, `async with ... as response`: the coroutine goes on once the
\* request it made last was answered
GoesOnAtOnce(requests) == TRUE

Awaited(requests) ==
    IF requests = <<>> THEN TRUE ELSE requests[Len(requests)].answered

\* _get_images_for_delete makes its next request
EnumerationRequest ==
    /\ dpc = "delete_project_images"
    /\ Awaited(enum)
    /\ LET all == Enumeration(client.class, events[handled], repositories)
       IN  /\ Len(enum) < Len(all)
           /\ enum' = Append(enum, [op |-> all[Len(enum) + 1].op,
                                    image |-> all[Len(enum) + 1].image,
                                    tag |-> all[Len(enum) + 1].tag,
                                    answered |-> FALSE])
    /\ UNCHANGED <<client, repositories, events, handled, dpc, tasks, sem, log,
                   acks>>
    /\ UNCHANGED <<hvars, cvars, tvars, gvars, nvars>>

\* the request is answered, or fails and delete_project_images raises
EnumerationResponse ==
    /\ dpc = "delete_project_images"
    /\ enum # <<>>
    /\ ~enum[Len(enum)].answered
    /\ enum' = [enum EXCEPT ![Len(enum)].answered = TRUE]
    /\ \E ok \in BOOLEAN :
         IF ok
         THEN UNCHANGED <<dpc, log>>
         ELSE /\ dpc' = "idle"
              /\ log' = Append(log, [event |-> handled, outcome |-> "raised"])
    /\ UNCHANGED <<client, repositories, events, handled, tasks, sem, acks>>
    /\ UNCHANGED <<hvars, cvars, tvars, gvars, nvars>>

\* delete_project_images at asyncio.gather: _get_images_for_delete is
\* exhausted, the delete_image_manifest calls it yielded become tasks
GetImagesForDelete ==
    /\ dpc = "delete_project_images"
    /\ Awaited(enum)
    /\ LET ev == events[handled]
       IN  /\ Len(enum) >= Len(Enumeration(client.class, ev, repositories))
           /\ tasks' = ImagesForDelete(
                          ListImages(client.class, ev.org, ev.project,
                                     repositories),
                          repositories, 1)
    /\ dpc' = "gather"
    /\ UNCHANGED <<client, repositories, events, handled, enum, sem, log, acks>>
    /\ UNCHANGED <<hvars, cvars, tvars, gvars, nvars>>

\* delete_image_manifest enters `async with self._sem`: with GAR it gathers
\* the delete_tag tasks of its tags, otherwise it sends the manifest DELETE
DeleteImageManifest(t) ==
    /\ tasks[t].status = "pending"
    /\ ~SemLocked(sem)
    /\ sem' = sem - 1
    /\ tasks' = [tasks EXCEPT ![t] =
          IF client.is_upstream_gar
          THEN [@ EXCEPT !.status = "tags",
                         !.tag_status = [j \in 1..Len(@) |-> "pending"]]
          ELSE [@ EXCEPT !.status = "deleting"]]
    /\ UNCHANGED <<client, repositories, events, handled, enum, dpc, log, acks>>
    /\ UNCHANGED <<hvars, cvars, tvars, gvars, nvars>>

\* delete_tag enters `async with self._sem` and sends the tag DELETE
DeleteTag(t, j) ==
    /\ tasks[t].tag_status[j] = "pending"
    /\ ~SemLocked(sem)
    /\ sem' = sem - 1
    /\ tasks' = [tasks EXCEPT ![t].tag_status[j] = "deleting"]
    /\ UNCHANGED <<client, repositories, events, handled, enum, dpc, log, acks>>
    /\ UNCHANGED <<hvars, cvars, tvars, gvars, nvars>>

\* delete_tag receives the response, 202 or not found, raises unless it is
\* 202 and leaves `async with`
DeleteTagResponse(t, j) ==
    /\ tasks[t].tag_status[j] = "deleting"
    /\ sem' = sem + 1
    /\ \E status \in {202, 404} :
         tasks' = [tasks EXCEPT ![t].tag_status[j] =
                      IF status = 202 THEN "done" ELSE "failed"]
    /\ UNCHANGED <<client, repositories, events, handled, enum, dpc, log, acks>>
    /\ UNCHANGED <<hvars, cvars, tvars, gvars, nvars>>

\* delete_image_manifest after asyncio.gather of its delete_tag tasks: it
\* sends the manifest DELETE, or raises and leaves `async with`
GatherTags(t) ==
    /\ tasks[t].status = "tags"
    /\ \/ /\ GatherRaises(tasks[t].tag_status)
          /\ tasks' = [tasks EXCEPT ![t].status = "failed"]
          /\ sem' = sem + 1
       \/ /\ GatherReturns(tasks[t].tag_status)
          /\ tasks' = [tasks EXCEPT ![t].status = "deleting"]
          /\ UNCHANGED sem
    /\ UNCHANGED <<client, repositories, events, handled, enum, dpc, log, acks>>
    /\ UNCHANGED <<hvars, cvars, tvars, gvars, nvars>>

\* delete_image_manifest receives the response, 202 or not found, raises
\* unless it is 202 and leaves `async with`
DeleteImageManifestResponse(t) ==
    /\ tasks[t].status = "deleting"
    /\ sem' = sem + 1
    /\ \E status \in {202, 404} :
         tasks' = [tasks EXCEPT ![t].status =
                      IF status = 202 THEN "done" ELSE "failed"]
    /\ UNCHANGED <<client, repositories, events, handled, enum, dpc, log, acks>>
    /\ UNCHANGED <<hvars, cvars, tvars, gvars, nvars>>

\* delete_project_images after asyncio.gather of the delete_image_manifest
\* tasks: it raises, or returns and the event is to be acknowledged
GatherManifests ==
    /\ dpc = "gather"
    /\ LET statuses == [t \in 1..Len(tasks) |-> tasks[t].status]
       IN  \/ /\ GatherRaises(statuses)
              /\ dpc' = "idle"
              /\ log' = Append(log, [event |-> handled, outcome |-> "raised"])
           \/ /\ GatherReturns(statuses)
              /\ dpc' = IF client.class = "RegistryApiClient" THEN "ack" ELSE "idle"
              /\ log' = Append(log, [event |-> handled, outcome |-> "returned"])
    /\ UNCHANGED <<client, repositories, events, handled, enum, tasks, sem, acks>>
    /\ UNCHANGED <<hvars, cvars, tvars, gvars, nvars>>

\* ProjectDeleter._on_admin_event: ack({ADMIN_STREAM: [ev.tag]})
Ack ==
    /\ dpc = "ack"
    /\ acks' = Append(acks, [stream |-> "platform-admin",
                             tags |-> <<events[handled].tag>>])
    /\ dpc' = "idle"
    /\ UNCHANGED <<client, repositories, events, handled, enum, tasks, sem, log>>
    /\ UNCHANGED <<hvars, cvars, tvars, gvars, nvars>>

DeleterNext ==
    \/ OnAdminEvent
    \/ EnumerationRequest
    \/ EnumerationResponse
    \/ GetImagesForDelete
    \/ \E t \in 1..Len(tasks) : DeleteImageManifest(t)
    \/ \E t \in 1..Len(tasks) : \E j \in 1..Len(tasks[t].tags) : DeleteTag(t, j)
    \/ \E t \in 1..Len(tasks) : \E j \in 1..Len(tasks[t].tags) :
          DeleteTagResponse(t, j)
    \/ \E t \in 1..Len(tasks) : GatherTags(t)
    \/ \E t \in 1..Len(tasks) : DeleteImageManifestResponse(t)
    \/ GatherManifests
    \/ Ack

DeleterSpec == DeleterInit /\ [][DeleterNext]_vars

-----------------------------------------------------------------------------
\* Properties of the deleter (specification DeleterSpec).

\* the tasks inside `async with self._sem`
Holders ==
    Cardinality({t \in 1..Len(tasks) : tasks[t].status \in {"tags", "deleting"}})
    + Cardinality({tj \in (1..Len(tasks)) \X (1..2) :
                      /\ tj[2] <= Len(tasks[tj[1]].tags)
                      /\ tasks[tj[1]].tag_status[tj[2]] = "deleting"})

\* the DELETE requests in flight
DeletesInFlight ==
    Cardinality({t \in 1..Len(tasks) : tasks[t].status = "deleting"})
    + Cardinality({tj \in (1..Len(tasks)) \X (1..2) :
                      /\ tj[2] <= Len(tasks[tj[1]].tags)
                      /\ tasks[tj[1]].tag_status[tj[2]] = "deleting"})

CurrentEvent == events[handled]

DeleteSent(task) ==
    \/ task.status \in {"deleting", "done"}
    \/ \E j \in 1..Len(task.tags) : task.tag_status[j] \in {"deleting", "done", "failed"}
    \/ task.status = "failed" /\ \A j \in 1..Len(task.tags) : task.tag_status[j] # "failed"

\* C9 as stated: delete_project_images(org, project) sends DELETE requests
\* only for images whose name starts with {org}/{project}/, and when it has
\* returned it has sent them for every such image of the catalog that has a
\* manifest
C9_OnlyImagesOfTheProject ==
    handled > 0 =>
        LET of_project(image) ==
                IsPrefix(CurrentEvent.org \o <<"/">> \o CurrentEvent.project
                             \o <<"/">>, image)
        IN  /\ \A t \in 1..Len(tasks) :
                  DeleteSent(tasks[t]) => of_project(tasks[t].image)
            /\ (log # <<>> /\ log[Len(log)].outcome = "returned") =>
                  \A i \in 1..Len(repositories) :
                      (of_project(repositories[i].name)
                          /\ repositories[i].tags # <<>>)
                      => \E t \in 1..Len(tasks) :
                            /\ tasks[t].image = repositories[i].name
                            /\ DeleteSent(tasks[t])

\* the same for the RegistryApiClient alone
C9_RegistryClientOnlyImagesOfTheProject ==
    client.class = "RegistryApiClient" => C9_OnlyImagesOfTheProject

\* the manifest DELETE of the task was sent
ManifestDeleteSent(task) ==
    \/ task.status \in {"deleting", "done"}
    \/ task.status = "failed"
         /\ \A j \in 1..Len(task.tags) : task.tag_status[j] # "failed"

\* C11: with GAR, delete_image_manifest sends the manifest DELETE of a digest
\* only after the DELETE of every tag of the digest was answered 202; with
\* any other host it sends no DELETE for a tag
C11_TagsBeforeManifest ==
    \A t \in 1..Len(tasks) :
        /\ (client.is_upstream_gar /\ ManifestDeleteSent(tasks[t])) =>
              \A j \in 1..Len(tasks[t].tags) : tasks[t].tag_status[j] = "done"
        /\ ~client.is_upstream_gar =>
              \A j \in 1..Len(tasks[t].tags) : tasks[t].tag_status[j] = "none"

\* with GAR the manifest DELETE of a digest with two tags is in flight after
\* both tags were deleted
C11_Witness ==
    /\ client.is_upstream_gar
    /\ \E t \in 1..Len(tasks) :
          /\ tasks[t].status = "deleting"
          /\ Len(tasks[t].tags) = 2
          /\ tasks[t].tag_status = <<"done", "done">>

\* C12 as stated: delete_project_images tolerates not found: when the
\* listing succeeded and every DELETE was answered 202 or not found, it does
\* not raise (and the event is acknowledged)
C12_NotFoundIsTolerated ==
    (log # <<>> /\ log[Len(log)].outcome = "raised" /\ log[Len(log)].event = handled)
        => \A t \in 1..Len(tasks) :
              /\ tasks[t].status # "failed"
              /\ \A j \in 1..Len(tasks[t].tags) : tasks[t].tag_status[j] # "failed"

-----------------------------------------------------------------------------
\* The upstream token caches: ExpiringCache on its own, and _get_headers of
\* OAuthUpstream and AWSECRUpstream.

\* the handlers, the catalog and the deleter while the caches are exercised
OthersIdle ==
    /\ config = [type |-> "basic", upstream_repo |-> ""]
    /\ request = NoRequest
    /\ granted = {}
    /\ pc = "idle"
    /\ registry_repo_url = NoRepoURL
    /\ upstream_repo_url = NoRepoURL
    /\ sent = <<>>
    /\ response = NoResponse
    /\ CatalogIdle
    /\ DeleterIdle
    /\ TagsIdle
    /\ NamesIdle

\* time_factory() returns a later time
Tick ==
    /\ now < MaxTime
    /\ now' = now + 1
    /\ UNCHANGED <<strategy, cache, calls, fetches, last_put, got, returned>>
    /\ UNCHANGED <<hvars, cvars, dvars, gvars, nvars>>

\* the keys, values and expiry times of the direct calls of put and get
PutKeys == {<<>>, <<"key">>}

PutValues == {<<"value">>, <<"other">>}

PutExpiresAt == {1, 3}

CacheInit ==
    /\ OthersIdle
    /\ TokenIdle

\* ExpiringCache.put
Put(key, value, expires_at) ==
    /\ cache' = CachePut(cache, key, value, expires_at)
    /\ last_put' = [k \in DOMAIN last_put \cup {key} |->
                       IF k = key THEN <<value, expires_at>> ELSE last_put[k]]
    /\ UNCHANGED <<strategy, now, calls, fetches, got, returned>>
    /\ UNCHANGED <<hvars, cvars, dvars, gvars, nvars>>

\* ExpiringCache.get
Get(key) ==
    /\ got' = [key |-> key, result |-> CacheGet(cache, key, now)]
    /\ UNCHANGED <<strategy, now, cache, calls, fetches, last_put, returned>>
    /\ UNCHANGED <<hvars, cvars, dvars, gvars, nvars>>

CacheNext ==
    \/ Tick
    \/ \E key \in PutKeys, value \in PutValues, expires_at \in PutExpiresAt :
          Put(key, value, expires_at)
    \/ \E key \in PutKeys : Get(key)

CacheSpec == CacheInit /\ [][CacheNext]_vars

TokenInit ==
    /\ OthersIdle
    /\ strategy \in {"oauth", "aws_ecr"}
    /\ now = 0
    /\ cache = <<>>
    /\ calls = [c \in 1..MaxCalls |-> NoCall]
    /\ fetches = 0
    /\ last_put = <<>>
    /\ got = NoGot
    /\ returned = NoReturn

\* _get_headers up to its await: the lookup, then on a hit the return and
\* on a miss the request for a token
GetHeaders(c, call) ==
    /\ calls[c].pc = "idle"
    /\ c = Min({i \in 1..MaxCalls : calls[i].pc = "idle"})
    /\ LET scopes == IF strategy = "oauth" THEN Scopes(call) ELSE <<>>
           key == CacheKey(strategy, scopes)
           headers == CacheGet(cache, key, now)
           seen == IF key \in DOMAIN cache THEN cache[key] ELSE NoRecord
       IN  IF headers # None
           THEN /\ returned' = [NoReturn EXCEPT
                                   !.outcome = "returned",
                                   !.kind = call.kind, !.scopes = scopes,
                                   !.headers = headers]
                /\ UNCHANGED <<calls, fetches>>
           ELSE /\ fetches < MaxFetches
                /\ calls' = [calls EXCEPT ![c] =
                                [pc |-> "fetching", kind |-> call.kind,
                                 scopes |-> scopes,
                                 key |-> key, n |-> fetches + 1,
                                 seen |-> seen]]
                /\ fetches' = fetches + 1
                /\ UNCHANGED returned
    /\ UNCHANGED <<strategy, now, cache, last_put, got>>
    /\ UNCHANGED <<hvars, cvars, dvars, gvars, nvars>>

\* the token endpoint (get_authorization_token for ECR) answers: the rest of
\* _get_headers
GetTokenResponse(c) ==
    /\ calls[c].pc = "fetching"
    /\ \E payload \in IF strategy = "oauth" THEN OAuthPayloads
                      ELSE ECRPayloads(now) :
          LET text == [scopes |-> calls[c].scopes, n |-> calls[c].n]
              token == IF strategy = "oauth"
                       THEN OAuthTokenFromPayload(payload, text, now)
                       ELSE AWSECRAuthTokenFromPayload(payload, text, now)
              headers == HeadersOf(strategy, token)
              ended == [NoReturn EXCEPT !.kind = calls[c].kind,
                                        !.scopes = calls[c].scopes,
                                        !.payload = payload]
          IN  IF "failure" \in DOMAIN token
              THEN /\ returned' = [ended EXCEPT !.outcome = "raised"]
                   /\ UNCHANGED <<cache, last_put>>
              ELSE /\ cache' = CachePut(cache, calls[c].key, headers,
                                        token.expires_at)
                   /\ last_put' =
                         [k \in DOMAIN last_put \cup {calls[c].key} |->
                             IF k = calls[c].key
                             THEN <<headers, token.expires_at>>
                             ELSE last_put[k]]
                   /\ returned' = [ended EXCEPT !.outcome = "returned",
                                                !.headers = headers]
    /\ calls' = [calls EXCEPT ![c] = NoCall]
    /\ UNCHANGED <<strategy, now, fetches, got>>
    /\ UNCHANGED <<hvars, cvars, dvars, gvars, nvars>>

\* the request for the token fails in transport: the exception leaves
\* _get_headers
GetTokenError(c) ==
    /\ calls[c].pc = "fetching"
    /\ returned' = [NoReturn EXCEPT
                       !.outcome = "raised", !.kind = calls[c].kind,
                       !.scopes = calls[c].scopes,
                       !.payload = [error |-> "transport"]]
    /\ calls' = [calls EXCEPT ![c] = NoCall]
    /\ UNCHANGED <<strategy, now, cache, fetches, last_put, got>>
    /\ UNCHANGED <<hvars, cvars, dvars, gvars, nvars>>

TokenNext ==
    \/ Tick
    \/ \E c \in 1..MaxCalls, call \in CallsFor(strategy) :
          GetHeaders(c, call)
    \/ \E c \in 1..MaxCalls : GetTokenResponse(c)
    \/ \E c \in 1..MaxCalls : GetTokenError(c)

TokenSpec == TokenInit /\ [][TokenNext]_vars

\* the last put under the key has not expired
Unexpired(key) == key \in DOMAIN last_put /\ now < last_put[key][2]

\* the step is a _get_headers call that finds the headers in the cache
HitStep ==
    /\ calls' = calls
    /\ returned' # returned
    /\ returned'.outcome = "returned"

\* the step is the start of a _get_headers call that requests a token
MissStep(c) == calls[c].pc = "idle" /\ calls'[c].pc = "fetching"

\* C13 as stated, its last part: a _get_headers call of OAuthUpstream never
\* returns a token that was fetched for another scope list
C13_NeverAnotherScopeListsToken ==
    (strategy = "oauth" /\ returned.outcome = "returned")
        => returned.headers[2].scopes = returned.scopes

\* C13: OAuthUpstream._get_headers(scopes) requests a token exactly when the
\* last put under the key, the scopes joined by a space, is missing or has
\* expired (now >= expires_at); otherwise it returns the headers of that put
\* without a request; and the token it returns was fetched for a scope list
\* with the same key
C13_FetchIffNoUnexpiredEntry ==
    [][strategy = "oauth" =>
          /\ HitStep =>
                /\ Unexpired(Join(returned'.scopes))
                /\ returned'.headers = last_put[Join(returned'.scopes)][1]
                /\ fetches' = fetches
          /\ \A c \in 1..MaxCalls :
                MissStep(c) =>
                    /\ ~Unexpired(Join(calls'[c].scopes))
                    /\ fetches' = fetches + 1
          /\ fetches' # fetches => \E c \in 1..MaxCalls : MissStep(c)
          /\ returned'.outcome = "returned" =>
                Join(returned'.headers[2].scopes) = Join(returned'.scopes)
      ]_vars

\* a call for repository a, made at time 3 when no unexpired entry was
\* left, has fetched the second token
C13_Witness ==
    /\ strategy = "oauth"
    /\ now = 3
    /\ fetches = 2
    /\ returned.outcome = "returned"
    /\ returned.scopes = <<RepositoryScope(<<"a">>)>>
    /\ returned.payload = [token |-> TRUE, expires_in |-> 4]
    /\ returned.headers[2].n = 2
    /\ got = NoGot
    /\ \A c \in 1..MaxCalls : calls[c].pc = "idle"

\* the step is the end of call c's request for a token
FetchEndStep(c) == calls[c].pc = "fetching" /\ calls'[c].pc = "idle"

\* C14: with overlapping _get_headers calls (OAuth or ECR), a call that
\* returns gives Authorization headers built from a token that either was the
\* unexpired entry of the cache at the call's lookup or was fetched by the
\* call itself; the headers are never missing; every request for a token is
\* made by one call at its start, and a call that waits for its token makes
\* no other request
C14_OverlappingCalls ==
    [][/\ (returned' # returned /\ returned'.outcome = "returned") =>
            /\ returned'.headers # None
            /\ returned'.headers[1] \in {"Bearer", "Basic"}
            /\ returned'.headers[2].n \in 1..fetches
            /\ \/ /\ HitStep
                  /\ Unexpired(CacheKey(strategy, returned'.scopes))
                  /\ returned'.headers =
                        last_put[CacheKey(strategy, returned'.scopes)][1]
               \/ \E c \in 1..MaxCalls :
                     /\ FetchEndStep(c)
                     /\ returned'.headers[2].n = calls[c].n
       /\ fetches' # fetches =>
            /\ fetches' = fetches + 1
            /\ Cardinality({c \in 1..MaxCalls : MissStep(c)}) = 1
            /\ \A c \in 1..MaxCalls : MissStep(c) => calls'[c].n = fetches'
       /\ \A c \in 1..MaxCalls :
            calls[c].pc = "fetching" =>
                calls'[c] = calls[c] \/ calls'[c].pc = "idle"
      ]_vars

\* of two calls for the same key that both requested a token, the first
\* has returned its own token while the second still waits
C14_Witness ==
    /\ returned.outcome = "returned"
    /\ fetches = 2
    /\ returned.headers[2].n = 1
    /\ calls[1].pc = "idle"
    /\ calls[2].pc = "fetching"
    /\ calls[2].key = CacheKey(strategy, returned.scopes)
    /\ calls[2].n = 2

\* the request for a token failed in transport, or its payload has no token,
\* or (ECR) has no authorizationData or a token that expires no later than
\* the time it is received
FailedFetch(payload, time) ==
    \/ "error" \in DOMAIN payload
    \/ "token" \in DOMAIN payload /\ ~payload.token
    \/ /\ "authorizationData" \in DOMAIN payload
       /\ \/ ~payload.authorizationData
          \/ payload.expiresAt <= time

\* C15: when the request for a token inside _get_headers fails (transport
\* error, payload without a token, ECR token already expired), the call
\* raises, the cache is left as it was, and, unless another call has put
\* headers under the key since this call's lookup, a lookup of the key
\* right after finds nothing, so that the next call requests a token again
C15_FailedFetchIsNotCached ==
    [][\A c \in 1..MaxCalls :
          (FetchEndStep(c) /\ FailedFetch(returned'.payload, now)) =>
              /\ returned'.outcome = "raised"
              /\ returned'.headers = None
              /\ cache' = cache
              /\ (IF calls[c].key \in DOMAIN last_put
                  THEN last_put[calls[c].key] ELSE NoRecord) = calls[c].seen
                     => CacheGet(cache', calls[c].key, now') = None
      ]_vars

\* a call received a payload without a token and raised, and the next call
\* for the same scopes has requested a token again
C15_Witness ==
    /\ strategy = "oauth"
    /\ returned.outcome = "raised"
    /\ returned.payload = [token |-> FALSE]
    /\ calls[1].pc = "fetching"
    /\ calls[1].n = 2
    /\ calls[1].scopes = returned.scopes
    /\ calls[2].pc = "idle"
    /\ cache = <<>>

\* what get(key) is to return: the value of the last put under the key while
\* now() < expires_at, None otherwise and for a key never put
ExpectedGet(key) ==
    IF key \in DOMAIN last_put /\ now < last_put[key][2]
    THEN last_put[key][1] ELSE None

\* C16: ExpiringCache.get(k) returns the value of the last put(k, v, e)
\* exactly while now() < e, and None otherwise (now() = e included, and for a
\* key never put), whatever was put under other keys; get leaves the cache
\* as it was
C16_ExpiringCache ==
    /\ [](\A key \in PutKeys : CacheGet(cache, key, now) = ExpectedGet(key))
    /\ [][got' # got =>
             /\ cache' = cache
             /\ got'.result = ExpectedGet(got'.key)
         ]_vars

\* get("key") at the very time the value put under "key" expires has
\* returned None, while the value under the other key is still returned
C16_Witness ==
    /\ now = 1
    /\ DOMAIN cache = PutKeys
    /\ cache[<<"key">>] = <<<<"value">>, 1>>
    /\ cache[<<>>] = <<<<"other">>, 3>>
    /\ got = [key |-> <<"key">>, result |-> None]

\* C17 as stated: for a non-passthrough registry URL, with or without a
\* from= query, with or without an upstream repo configured,
\* create_registry_repo_url(create_upstream_repo_url(from_url(u))) has the
\* repo, mounted_repo, path and query of from_url(u)
C17_RoundTrip ==
    (registry_repo_url.valid /\ ~AllowSkipPerms(registry_repo_url)) =>
        LET back == CreateRegistryRepoUrl(
                        CreateUpstreamRepoUrl(registry_repo_url, config))
        IN  /\ back.valid
            /\ back.repo = registry_repo_url.repo
            /\ back.mounted_repo = registry_repo_url.mounted_repo
            /\ back.url.path = registry_repo_url.url.path
            /\ back.url.query = registry_repo_url.url.query

\* C18: for a request whose URL matches a passthrough pattern, handle makes
\* no permission check (no permission is asked for, and the request is
\* never answered 401 or 403, whatever its credentials), and
\* create_upstream_repo_url changes the origin only: repo, mounted_repo, path
\* and query stay, no project is prefixed
C18_PassthroughOnlyRebased ==
    (registry_repo_url.valid /\ MatchSkipPermsPathRe(registry_repo_url.url)) =>
        /\ granted = {}
        /\ response.status \notin {StatusUnauthorized, StatusForbidden}
        /\ upstream_repo_url.valid =>
              /\ upstream_repo_url.repo = registry_repo_url.repo
              /\ upstream_repo_url.mounted_repo = registry_repo_url.mounted_repo
              /\ upstream_repo_url.url.path = registry_repo_url.url.path
              /\ upstream_repo_url.url.query = registry_repo_url.url.query
              /\ upstream_repo_url.url.origin = "upstream"

\* a passthrough request without credentials, with a from= query, was
\* proxied to the upstream and answered
C18_Witness ==
    /\ MatchSkipPermsPathRe(registry_repo_url.url)
    /\ request.authorization = "none"
    /\ request.url.query.has_from
    /\ upstream_repo_url.valid
    /\ upstream_repo_url.url.origin = "upstream"
    /\ response.status = 200

\* the Location header of the upstream's answer to the proxied request
AnsweredLocation ==
    IF sent # <<>> /\ "location" \in DOMAIN sent[Len(sent)]
    THEN sent[Len(sent)].location ELSE NoURL

\* what the Location header given to the caller is to be: the upstream's one
\* if its host is a third party's; the registry's origin and the path
\* without the project if it is a non-passthrough URL on the upstream's or
\* the registry's host
RewrittenAsClaimed(location, result) ==
    /\ location.origin \notin {"", "upstream", "registry"} => result = location
    /\ (location.origin \in {"upstream", "registry"}
            /\ ~MatchSkipPermsPathRe(location)) =>
          /\ location.path[2] = Project
          /\ result = [origin |-> "registry",
                       path |-> <<"v2">> \o SubSeq(location.path, 3,
                                                   Len(location.path)),
                       query |-> location.query]

\* C19 as stated: in every proxied response, by V2Handler._proxy_request
\* and by UpstreamV2ApiClient.proxy_request, a Location on a third party's
\* host is returned unchanged and a non-passthrough Location on the
\* upstream's or the registry's host is rewritten to the registry's origin
\* with the project removed from the repo
C19_LocationRewriting ==
    (pc = "done" /\ AnsweredLocation # NoURL) =>
        /\ "location" \in DOMAIN response
        /\ RewrittenAsClaimed(AnsweredLocation, response.location)
        /\ RewrittenAsClaimed(AnsweredLocation,
                              ClientProxyLocation(AnsweredLocation,
                                                  request.url.origin))

\* the same for V2Handler._proxy_request alone
C19_HandlerLocationRewriting ==
    (pc = "done" /\ AnsweredLocation # NoURL) =>
        /\ "location" \in DOMAIN response
        /\ RewrittenAsClaimed(AnsweredLocation, response.location)

\* the request is a DELETE of a manifest handled with upstream type aws_ecr
EcrManifestDelete ==
    /\ pc = "done"
    /\ config.type = "aws_ecr"
    /\ request.method = "DELETE"
    /\ registry_repo_url.valid
    /\ request.url.path[Len(request.url.path) - 1] = "manifests"
    /\ sent # <<>>

\* C20 as stated: with aws_ecr, DELETE /v2/{repo}/manifests/{ref} is not
\* proxied; BatchDeleteImage is called exactly once, on {project}/{repo},
\* with imageDigest=ref for a ref starting with sha256: and imageTag=ref
\* otherwise; DeleteRepository(force=false) is called exactly once, after
\* it, and its RepositoryNotEmptyException is ignored; the caller receives
\* 202 with an empty body on success and 404 when the first failure is
\* ImageNotFound
C20_EcrManifestDelete ==
    EcrManifestDelete =>
        LET ref == request.url.path[Len(request.url.path)]
            batch == {i \in 1..Len(sent) : sent[i].op = "batch_delete_image"}
            delete == {i \in 1..Len(sent) : sent[i].op = "delete_repository"}
        IN  /\ \A i \in 1..Len(sent) : sent[i].op # "DELETE"
            /\ Cardinality(batch) = 1
            /\ Cardinality(delete) = 1
            /\ \A i \in batch, j \in delete :
                  /\ i < j
                  /\ sent[i].repo = <<Project>> \o registry_repo_url.repo
                  /\ sent[j].repo = sent[i].repo
                  /\ sent[j].force = FALSE
                  /\ sent[i].image_ids =
                        IF ref = "sha256:abcd" THEN <<[imageDigest |-> ref]>>
                        ELSE <<[imageTag |-> ref]>>
                  /\ sent[i].answer.failures = <<>> =>
                        response.status = 202 /\ response.content = <<>>
                  /\ (sent[i].answer.failures # <<>>
                      /\ sent[i].answer.failures[1].failureCode = "ImageNotFound")
                        => response.status = 404

\* the same with the body the code returns on success: what is left of
\* ECR's answer, its imageIds
C20_EcrManifestDeleteReturnsImageIds ==
    EcrManifestDelete =>
        LET ref == request.url.path[Len(request.url.path)]
            batch == {i \in 1..Len(sent) : sent[i].op = "batch_delete_image"}
            delete == {i \in 1..Len(sent) : sent[i].op = "delete_repository"}
        IN  /\ \A i \in 1..Len(sent) : sent[i].op # "DELETE"
            /\ Cardinality(batch) = 1
            /\ Cardinality(delete) = 1
            /\ \A i \in batch, j \in delete :
                  /\ i < j
                  /\ sent[i].repo = <<Project>> \o registry_repo_url.repo
                  /\ sent[j].repo = sent[i].repo
                  /\ sent[j].force = FALSE
                  /\ sent[i].image_ids =
                        IF ref = "sha256:abcd" THEN <<[imageDigest |-> ref]>>
                        ELSE <<[imageTag |-> ref]>>
                  /\ sent[i].answer.failures = <<>> =>
                        /\ response.status = 202
                        /\ response.content = [imageIds |-> sent[i].image_ids]
                  /\ (sent[i].answer.failures # <<>>
                      /\ sent[i].answer.failures[1].failureCode = "ImageNotFound")
                        => response.status = 404

\* C21: convert_upstream_response answers 202 when BatchDeleteImage lists
\* no failure, 404 with code NAME_INVALID when the first failure is
\* ImageNotFound, 404 with code NAME_UNKNOWN when it is RepositoryNotFound
\* and 500 with code 0 for any other first failure; the failures after the
\* first never change the answer
C21_ConvertUpstreamResponse ==
    EcrManifestDelete =>
        \A i \in 1..Len(sent) :
            sent[i].op = "batch_delete_image" =>
                LET failures == sent[i].answer.failures
                IN  IF failures = <<>>
                    THEN response.status = 202
                    ELSE CASE failures[1].failureCode = "ImageNotFound" ->
                                /\ response.status = 404
                                /\ response.content.errors[1].code
                                        = "NAME_INVALID"
                           [] failures[1].failureCode = "RepositoryNotFound" ->
                                /\ response.status = 404
                                /\ response.content.errors[1].code
                                        = "NAME_UNKNOWN"
                           [] OTHER ->
                                /\ response.status = 500
                                /\ response.content.errors[1].code = 0

\* an ECR manifest delete whose answer lists LimitExceeded first and
\* ImageNotFound second, answered 500
C21_Witness ==
    /\ EcrManifestDelete
    /\ response.status = 500
    /\ \E i \in 1..Len(sent) :
          /\ sent[i].op = "batch_delete_image"
          /\ Len(sent[i].answer.failures) = 2
          /\ sent[i].answer.failures[1].failureCode = "LimitExceeded"
          /\ sent[i].answer.failures[2].failureCode = "ImageNotFound"

\* the step starts a get_headers_for_version, get_headers_for_catalog or
\* get_headers_for_repo call
CallStep == HitStep \/ \E c \in 1..MaxCalls : MissStep(c)

\* C22: AWSECRUpstream keeps its headers under the one key "*": whichever
\* of get_headers_for_version, get_headers_for_catalog and
\* get_headers_for_repo is called while the last put is unexpired, the call
\* returns that put's headers, Basic with the token, and
\* GetAuthorizationToken is not called; it is called only by a call that
\* finds no unexpired entry
C22_OneEntryForAllOperations ==
    /\ [](strategy = "aws_ecr" => DOMAIN cache \subseteq {<<"*">>})
    /\ [][strategy = "aws_ecr" =>
            /\ (CallStep /\ Unexpired(<<"*">>)) =>
                    /\ HitStep
                    /\ returned'.kind \in {"version", "catalog", "repo"}
                    /\ returned'.headers = last_put[<<"*">>][1]
                    /\ returned'.headers[1] = "Basic"
                    /\ fetches' = fetches
            /\ HitStep => Unexpired(<<"*">>)
            /\ fetches' # fetches =>
                    /\ ~Unexpired(<<"*">>)
                    /\ \E c \in 1..MaxCalls : MissStep(c)
        ]_vars

\* after the one GetAuthorizationToken call, a later get_headers_for_repo
\* has found the token in the cache and returned it
C22_Witness ==
    /\ strategy = "aws_ecr"
    /\ fetches = 1
    /\ now > 0
    /\ Unexpired(<<"*">>)
    /\ returned.outcome = "returned"
    /\ returned.kind = "repo"
    /\ returned.payload = NoReturn.payload
    /\ returned.headers = last_put[<<"*">>][1]
    /\ \A c \in 1..MaxCalls : calls[c].pc = "idle"

-----------------------------------------------------------------------------
\* A client paging through /v2/{repo}/tags/list of a generic upstream
\* (V2Handler.handle_repo_tags_list, _handle_generic_tags_list).

MaxTags == 3

\* the repositories whose tags the client lists
TagsRepos == {<<"alice", "img">>, <<"pkg">>}

\* the query of a tags-list page: the page size n and the cursor last (0
\* while the client has none); tag i stands for the i-th tag in the upstream's
\* order
TagsQuery(n, last) == [from |-> <<>>, has_from |-> FALSE, n |-> n, last |-> last]

TagsInit ==
    /\ config \in {c \in Configs : c.type # "aws_ecr"}
    /\ request = NoRequest
    /\ granted = {}
    /\ pc = "idle"
    /\ registry_repo_url = NoRepoURL
    /\ upstream_repo_url = NoRepoURL
    /\ sent = <<>>
    /\ response = NoResponse
    /\ CatalogIdle
    /\ DeleterIdle
    /\ TokenIdle
    /\ NamesIdle
    /\ upstream_tags \in {[i \in 1..k |-> i] : k \in 0..MaxTags}
    /\ client_pc = "start"
    /\ client_tags = <<>>
    /\ client_link = NoURL

\* the client asks for the first page of n tags
ClientRequestTags ==
    /\ pc = "idle"
    /\ client_pc = "start"
    /\ \E repo \in TagsRepos, n \in 1..MaxN :
          LET req == [method |-> "GET",
                      url |-> [origin |-> "registry",
                               path |-> <<"v2">> \o repo \o <<"tags", "list">>,
                               query |-> TagsQuery(n, 0)],
                      authorization |-> "valid"]
          IN  /\ request' = req
              /\ pc' = Route(req)
    /\ client_pc' = "waiting"
    /\ UNCHANGED <<config, granted, registry_repo_url, upstream_repo_url, sent,
                   response>>
    /\ UNCHANGED <<upstream_tags, client_tags, client_link>>
    /\ UNCHANGED <<cvars, dvars, tvars, nvars>>

\* the client requests the URL of the Link rel=next it received; it gives
\* up once it holds more than MaxTags tags
ClientFollowTagsLink ==
    /\ pc = "idle"
    /\ client_pc = "link"
    /\ Len(client_tags) <= MaxTags
    /\ LET req == [method |-> "GET", url |-> client_link,
                   authorization |-> "valid"]
       IN  /\ request' = req
           /\ pc' = Route(req)
    /\ client_pc' = "waiting"
    /\ UNCHANGED <<config, granted, registry_repo_url, upstream_repo_url, sent,
                   response>>
    /\ UNCHANGED <<upstream_tags, client_tags, client_link>>
    /\ UNCHANGED <<cvars, dvars, tvars, nvars>>

\* the response reaches the client and the handler returns: the client keeps
\* the tags of a 200 and the Link, and stops at another status
ClientReceiveTags ==
    /\ pc = "done"
    /\ client_pc = "waiting"
    /\ IF response.status = 200
       THEN /\ client_tags' = client_tags \o response.content.tags
            /\ client_link' = IF response.link # NoURL THEN response.link
                              ELSE client_link
            /\ client_pc' = IF response.link # NoURL THEN "link" ELSE "done"
       ELSE /\ client_pc' = "failed"
            /\ UNCHANGED <<client_tags, client_link>>
    /\ pc' = "idle"
    /\ request' = NoRequest
    /\ granted' = {}
    /\ registry_repo_url' = NoRepoURL
    /\ upstream_repo_url' = NoRepoURL
    /\ sent' = <<>>
    /\ response' = NoResponse
    /\ UNCHANGED <<config, upstream_tags>>
    /\ UNCHANGED <<cvars, dvars, tvars, nvars>>

TagsNext ==
    \/ ClientRequestTags
    \/ ClientFollowTagsLink
    \/ TagsListCheckPermissions
    \/ GetHeadersForRepo
    \/ GenericTagsList
    \/ ClientReceiveTags

TagsSpec == TagsInit /\ [][TagsNext]_vars

\* the generic tags-list handler has answered from an upstream response
TagsListAnswered ==
    /\ pc = "done"
    /\ sent # <<>>
    /\ "answer" \in DOMAIN sent[Len(sent)]
    /\ "body" \in DOMAIN sent[Len(sent)].answer

\* the registry repo name the caller requested
RequestedRepo == SubSeq(request.url.path, 2, Len(request.url.path) - 2)

\* C23: the generic tags-list handler returns the upstream's status and,
\* for a JSON body, the upstream's body with name and every
\* errors[*].detail.name replaced by the registry repo name the caller
\* requested, which has no project prefix; everything else of the body is
\* the upstream's, for a success and for an error
C23_FixupRepoName ==
    (TagsListAnswered /\ "text" \notin DOMAIN sent[Len(sent)].answer.body) =>
        LET body == sent[Len(sent)].answer.body
            content == response.content
        IN  /\ response.status = sent[Len(sent)].answer.status
            /\ DOMAIN content = DOMAIN body
            /\ "name" \in DOMAIN body =>
                    /\ content.name = RequestedRepo
                    /\ content.tags = body.tags
            /\ "errors" \in DOMAIN body =>
                    /\ Len(content.errors) = Len(body.errors)
                    /\ \A i \in 1..Len(body.errors) :
                          /\ content.errors[i].code = body.errors[i].code
                          /\ IF "name" \in DOMAIN body.errors[i].detail
                             THEN content.errors[i].detail
                                    = [name |-> RequestedRepo]
                             ELSE content.errors[i].detail
                                    = body.errors[i].detail

\* the upstream, with the repo gar configured, answered 404 with two
\* errors, the second naming testproject/gar/alice/img; the caller
\* received 404 with alice/img there
C23_Witness ==
    /\ TagsListAnswered
    /\ config.upstream_repo = "gar"
    /\ response.status = 404
    /\ "errors" \in DOMAIN sent[Len(sent)].answer.body
    /\ Len(sent[Len(sent)].answer.body.errors) = 2
    /\ sent[Len(sent)].answer.body.errors[2].detail.name
            = <<Project, "gar", "alice", "img">>
    /\ response.content.errors[2].detail.name = <<"alice", "img">>

\* C24: the tags the paging client has received are at every moment the
\* first tags of the upstream's list, in its order, and are the whole list
\* once a response came without a Link; a response carries a Link exactly
\* when the upstream's did, and the Link is the registry's URL of the tags
\* list of the requested repo with the query (n and the cursor last) of the
\* upstream's Link
C24_TagsPaging ==
    client_pc # "off" =>
        /\ IsPrefix(client_tags, upstream_tags)
        /\ client_pc = "done" => client_tags = upstream_tags
        /\ (TagsListAnswered /\ response.status = 200) =>
              LET answer == sent[Len(sent)].answer
              IN  /\ (response.link = NoURL) <=> (answer.link = NoURL)
                  /\ answer.link # NoURL =>
                        /\ response.link =
                              [origin |-> "registry",
                               path |-> <<"v2">> \o RequestedRepo
                                        \o <<"tags", "list">>,
                               query |-> answer.link.query]
                        /\ answer.link.query.last
                              = answer.body.tags[Len(answer.body.tags)]

\* the client has paged through three tags one at a time, following two
\* Links, the last of which carried the cursor 2
C24_Witness ==
    /\ client_pc = "done"
    /\ config.upstream_repo = "gar"
    /\ Len(upstream_tags) = 3
    /\ client_tags = upstream_tags
    /\ client_link.path = <<"v2", "alice", "img", "tags", "list">>
    /\ client_link.query = TagsQuery(1, 2)

-----------------------------------------------------------------------------
\* The permission walk of the catalog, stated without the loop.

NoNode == [action |-> "", children |-> <<>>]

\* the node reached from the root t by the first k parts, each step going
\* from a node of action list into its child named by the part; NoNode when
\* the steps cannot all be made
RECURSIVE NodeAt(_, _, _)
NodeAt(t, parts, k) ==
    IF k = 0 THEN t
    ELSE LET node == NodeAt(t, parts, k - 1)
         IN  IF /\ node.action = "list"
                /\ parts[k] \in DOMAIN node.children
             THEN node.children[parts[k]]
             ELSE NoNode

AtLeastRead(action) == action \in {"read", "write", "manage"}

\* the permission the walk gives: it ends at the deepest node it can reach;
\* when that node has the action list and parts are left, the leaves named
\* "{part}:{tag}" for the next part decide, if there are any; otherwise
\* the node's action does
WalkResult(parts, t) ==
    LET k == Max({j \in 0..Len(parts) : NodeAt(t, parts, j) # NoNode})
        node == NodeAt(t, parts, k)
        tagged == IF k < Len(parts) /\ node.action = "list"
                  THEN {name \in DOMAIN node.children :
                            /\ node.children[name].children = <<>>
                            /\ StartsWithTagOf(name, parts[k + 1])}
                  ELSE {}
    IN  IF tagged # {}
        THEN \A name \in tagged : AtLeastRead(node.children[name].action)
        ELSE AtLeastRead(node.action)

\* the images of the upstream's catalog that belong to the project, without
\* the project prefix
ProjectImages ==
    LET project_prefix == ProjectPrefix(Project, config.upstream_repo)
    IN  {DropFirst(upstream_images[j], Len(project_prefix)) :
            j \in {i \in 1..Len(upstream_images) :
                      StartsWithPrefix(upstream_images[i], project_prefix)}}

\* C25 as stated: check_image_catalog_permission returns true as soon as
\* the current node's action is read or higher, otherwise descends into the
\* child named by the next segment, and returns false when there is no such
\* child and at the last segment unless the node's action is read or
\* higher; so the images the catalog lists are those this walk accepts
C25_WalkByName ==
    /\ \A image \in ProjectImages :
          CheckImageCatalogPermission(image, tree)
              = WalkTreeByName(tree, image, 1)
    /\ \A i \in 1..Len(filtered) : WalkTreeByName(tree, filtered[i], 1)

\* C25: check_image_catalog_permission descends from the root while the
\* node's action is list and a child is named by the next segment; at a node
\* of any other action, or after the last segment, it returns whether the
\* node's action is read or higher (false at a deny node, whatever lies
\* below); at a list node without such a child it returns whether all the
\* leaves named "{segment}:{tag}" have read or higher when there are such
\* leaves, and false otherwise
C25_Walk ==
    /\ \A image \in ProjectImages :
          CheckImageCatalogPermission(image, tree) = WalkResult(image, tree)
    /\ \A i \in 1..Len(filtered) : WalkResult(filtered[i], tree)

\* the catalog handler has kept alice/img4, which the tree grants through
\* the leaf alice/img4:latest only, with alice/img6 refused for its denied
\* leaf alice/img6:latest
C25_Witness ==
    /\ \E i \in 1..Len(filtered) : filtered[i] = <<"alice", "img4">>
    /\ <<"alice", "img6">> \in ProjectImages
    /\ ~CheckImageCatalogPermission(<<"alice", "img6">>, tree)
    /\ "alice" \in DOMAIN tree.children
    /\ "img4:latest" \in DOMAIN tree.children["alice"].children

\* C26: the token OAuthToken.create_from_payload builds expires at
\* issued_at + expires_in * 0.75, where expires_in is 60 when the payload
\* has none and issued_at is the current time when the payload has none:
\* 45 after the current time for a payload with the token only. (Times are
\* whole numbers here: four times the lifetime is three times expires_in.)
C26_ExpiresAt ==
    [][\A c \in 1..MaxCalls :
          (/\ strategy = "oauth"
           /\ FetchEndStep(c)
           /\ returned'.outcome = "returned") =>
              LET payload == returned'.payload
                  expires_in == IF "expires_in" \in DOMAIN payload
                                THEN payload.expires_in ELSE 60
                  issued_at == IF "issued_at" \in DOMAIN payload
                               THEN payload.issued_at ELSE now
                  expires_at == last_put'[calls[c].key][2]
              IN  /\ 4 * (expires_at - issued_at) = 3 * expires_in
                  /\ cache'[calls[c].key][2] = expires_at
                  /\ payload = [token |-> TRUE] => expires_at = now + 45
      ]_vars

\* a token fetched at time 1 is in the cache until 46, and the last fetch
\* was answered with a payload holding the token only
C26_Witness ==
    /\ strategy = "oauth"
    /\ returned.outcome = "returned"
    /\ returned.payload = [token |-> TRUE]
    /\ \E key \in DOMAIN last_put : last_put[key][2] = 46

\* a request was routed to a handler, RepoURL.from_url failed on its URL
\* and the caller has its answer
FromUrlFailed ==
    /\ pc = "done"
    /\ Route(request) \in {"handle", "handle_repo_tags_list"}
    /\ ~MatchSkipPermsPathRe(request.url)
    /\ V2SuffixStarts(request.url.path) = {}

\* C27 as stated: from_url fails for every URL whose path matches neither
\* the v2 grammar nor a passthrough pattern (/, /v2/, /v2/tags/list and
\* /v2/blobs/uploads/ among them), and the caller of a request for which it
\* fails receives 400
C27_FromUrlFailureIs400 ==
    /\ \A path \in {<<"">>, <<"v2", "">>, <<"v2", "tags", "list">>,
                     <<"v2", "blobs", "uploads", "">>} :
          ~FromUrl([origin |-> "registry", path |-> path,
                    query |-> NoQuery]).valid
    /\ FromUrlFailed => response.status = 400

\* the OAuth token endpoint answered a handler's request for a token
\* without token and access_token, and the caller has its answer
TokenlessPayloadAnswered ==
    /\ pc = "done"
    /\ config.type = "oauth"
    /\ \E i \in 1..Len(sent) :
          /\ sent[i].op = "get_token"
          /\ "payload" \in DOMAIN sent[i]
          /\ ~sent[i].payload.token

\* C28 as stated: when the OAuth token endpoint's response carries neither
\* token nor access_token, the token is not built, nothing is sent to the
\* upstream registry, and the client request that needed the token is
\* answered 502
C28_TokenlessPayloadIs502 ==
    TokenlessPayloadAnswered =>
        /\ sent[Len(sent)].op = "get_token"
        /\ response.status = 502

\* something was sent upstream (create_repository, the request for a token
\* or the proxied request) for a request V2Handler.handle handles
HandleSentUpstream ==
    request # NoRequest /\ Route(request) = "handle" /\ sent # <<>>

\* C30 as stated: V2Handler.handle authenticates the caller before any
\* upstream I/O for every request, passthrough URLs included: nothing is
\* sent upstream for a caller who was not authenticated
C30_AuthenticatedBeforeUpstream ==
    HandleSentUpstream => CheckAuthorized(request) = "ok"

\* what holds of the code: V2Handler.handle authenticates the caller before
\* any upstream I/O for every request whose URL matches no passthrough
\* pattern: for such a request nothing is sent upstream unless the caller
\* was authenticated and was granted what the handler asked for
C30_AuthenticatedUnlessPassthrough ==
    (HandleSentUpstream /\ ~MatchSkipPermsPathRe(request.url)) =>
        /\ CheckAuthorized(request) = "ok"
        /\ AskedPermissions(request) \subseteq granted

-----------------------------------------------------------------------------
\* delete_project_images under fair scheduling, with enough manifests at a
\* GAR upstream for every permit of the semaphore to be held by a
\* delete_image_manifest.

MaxLiveRepositories == 5

\* the registry holds none, one or more of the repositories of org/proj
\* whose digests have one tag each
LiveRepositories(k) == SubSeq(AllRepositories, 3, k)

DeleterLiveInit ==
    /\ config \in {c \in Configs : c.type = "basic" /\ c.upstream_repo = ""}
    /\ request = NoRequest
    /\ granted = {}
    /\ pc = "idle"
    /\ registry_repo_url = NoRepoURL
    /\ upstream_repo_url = NoRepoURL
    /\ sent = <<>>
    /\ response = NoResponse
    /\ CatalogIdle
    /\ TokenIdle
    /\ TagsIdle
    /\ NamesIdle
    /\ client \in [class : {"RegistryApiClient", "UpstreamV2ApiClient"},
                   is_upstream_gar : BOOLEAN]
    /\ \E k \in 2..MaxLiveRepositories : repositories = LiveRepositories(k)
    /\ events = <<>>
    /\ handled = 0
    /\ dpc = "idle"
    /\ enum = <<>>
    /\ tasks = <<>>
    /\ sem = DelSemSize
    /\ log = <<>>
    /\ acks = <<>>

\* a step of delete_project_images or of one of its tasks: the event loop
\* runs a coroutine that can go on, the upstream answers a request
DeleteStep ==
    \/ EnumerationRequest
    \/ EnumerationResponse
    \/ GetImagesForDelete
    \/ \E t \in 1..Len(tasks) : DeleteImageManifest(t)
    \/ \E t \in 1..Len(tasks) : \E j \in 1..Len(tasks[t].tags) : DeleteTag(t, j)
    \/ \E t \in 1..Len(tasks) : \E j \in 1..Len(tasks[t].tags) :
          DeleteTagResponse(t, j)
    \/ \E t \in 1..Len(tasks) : GatherTags(t)
    \/ \E t \in 1..Len(tasks) : DeleteImageManifestResponse(t)
    \/ GatherManifests

\* the event loop runs whatever is ready and the upstream answers every
\* request: every step above moves a task or the call forward, so that as
\* long as one can be taken one is taken
DeleterLiveSpec ==
    DeleterLiveInit /\ [][DeleterNext]_vars /\ WF_vars(DeleteStep)

\* C29 as stated: under fair scheduling and an upstream that answers every
\* request, delete_project_images eventually ends (returns, or raises what
\* a task raised), for any number of (repo, digest) groups and any upstream
\* type, GAR included
C29_EventuallyReturns ==
    (dpc = "delete_project_images") ~> (dpc \in {"idle", "ack"})

\* what blocks it: every permit is held by a delete_image_manifest that
\* waits for its delete_tag tasks, none of which holds a permit
AllPermitsHeldByWaiters ==
    /\ dpc = "gather"
    /\ client.is_upstream_gar
    /\ sem = 0
    /\ Cardinality({t \in 1..Len(tasks) : tasks[t].status = "tags"})
            = DelSemSize
    /\ \A t \in 1..Len(tasks) :
          /\ tasks[t].status \in {"tags", "pending"}
          /\ \A j \in 1..Len(tasks[t].tags) :
                tasks[t].tag_status[j] \in {"none", "pending"}

-----------------------------------------------------------------------------
\* The headers of the upstream request.

\* the requests the handlers have sent to the upstream registry over HTTP
ProxiedSent == {i \in 1..Len(sent) : "headers" \in DOMAIN sent[i]}

\* C31: the request sent upstream has no Host, Transfer-Encoding or
\* Connection header of the caller's, and its Authorization header is the
\* one the upstream auth strategy supplies, whatever the caller sent: it
\* depends on the upstream's type alone, so that requests that differ only
\* in the caller's credentials carry the same upstream Authorization; every
\* other header of the caller's is passed on as it came
C31_UpstreamAuthorization ==
    \A i \in ProxiedSent :
        LET headers == sent[i].headers
        IN  /\ DOMAIN headers \cap {"Host", "Transfer-Encoding", "Connection"} = {}
            /\ "Authorization" \in DOMAIN headers
            /\ headers["Authorization"] = AuthHeaders(config.type)["Authorization"]
            /\ headers["Authorization"] \notin {"Basic caller", "malformed"}
            /\ \A name \in DOMAIN RequestHeaders(request) \
                        {"Host", "Transfer-Encoding", "Connection", "Authorization"} :
                  /\ name \in DOMAIN headers
                  /\ headers[name] = RequestHeaders(request)[name]

\* a POST with the caller's own Authorization header has been sent upstream
C31_Witness ==
    /\ request # NoRequest
    /\ request.method = "POST"
    /\ request.authorization = "valid"
    /\ "Authorization" \in DOMAIN RequestHeaders(request)
    /\ ProxiedSent # {}

\* a request whose caller sent credentials the registry would refuse has
\* been sent upstream (its URL matches a passthrough pattern)
C31_MalformedWitness ==
    /\ request # NoRequest
    /\ request.authorization = "malformed"
    /\ ProxiedSent # {}

-----------------------------------------------------------------------------
\* The order of the steps of V2Handler.handle.

\* the step of handle an upstream operation belongs to: create_repo, the
\* acquisition of the upstream headers, the upstream request
StepOf(op) ==
    CASE op = "create_repository" -> 1
      [] op = "get_token" -> 2
      [] OTHER -> 3

\* the permission check of the request has been passed
PermissionCheckPassed ==
    /\ CheckAuthorized(request) = "ok"
    /\ HandlePermissions(request, registry_repo_url) \subseteq granted

\* C32: within one request handled by V2Handler.handle the steps occur in
\* the order permission check, create_repo, upstream auth-header
\* acquisition, upstream request, each at most once and none before the one
\* before it has ended; create_repo is invoked only when the method is not
\* HEAD or GET, and never for a request whose permission check failed
C32_StepsInOrder ==
    (request # NoRequest /\ Route(request) = "handle") =>
        /\ \A i, j \in 1..Len(sent) :
              i < j => /\ StepOf(sent[i].op) <= StepOf(sent[j].op)
                       /\ StepOf(sent[i].op) < 3 =>
                             StepOf(sent[i].op) < StepOf(sent[j].op)
        /\ pc = "handle" => sent = <<>>
        /\ pc = "create_repo" => sent = <<>>
        /\ pc = "get_headers_for_repo" =>
              \A i \in 1..Len(sent) : StepOf(sent[i].op) = 1
        /\ pc = "proxy_request" =>
              \A i \in 1..Len(sent) : StepOf(sent[i].op) < 3
        /\ \A i \in 1..Len(sent) :
              sent[i].op = "create_repository" =>
                 /\ request.method \notin {"HEAD", "GET"}
                 /\ sent[i].repo = upstream_repo_url.repo
        /\ (sent # <<>> /\ ~AllowSkipPerms(registry_repo_url)) =>
              PermissionCheckPassed

\* a push to ECR went through all four steps: the permissions were granted,
\* the repository created, a token fetched and the request sent
C32_Witness ==
    /\ request # NoRequest
    /\ Route(request) = "handle"
    /\ request.method = "POST"
    /\ ~AllowSkipPerms(registry_repo_url)
    /\ PermissionCheckPassed
    /\ Len(sent) = 3
    /\ sent[1].op = "create_repository"
    /\ sent[2].op = "get_token"
    /\ sent[3].op = "POST"

-----------------------------------------------------------------------------
\* The repo names of UpstreamV2ApiClient: a name is the sequence of its
\* segments and of the slashes between them, as RepoPrefix is.

MaxNameSegs == 2
MaxNameCalls == 2

NameSegs == {Project, "alice", "img"}

RECURSIVE NamesOf(_)
\* the names of k segments
NamesOf(k) ==
    IF k = 1 THEN {<<seg>> : seg \in NameSegs}
    ELSE {name \o <<"/", seg>> : name \in NamesOf(k - 1), seg \in NameSegs}

\* the registry repo names a caller may give
RegistryNames == UNION {NamesOf(k) : k \in 1..MaxNameSegs}

\* UpstreamV2ApiClient._upstream_repo_name
ClientUpstreamRepoName(repo) ==
    IF IsPrefix(RepoPrefix, repo) THEN repo ELSE RepoPrefix \o repo

\* UpstreamV2ApiClient._registry_repo_name
ClientRegistryRepoName(repo) ==
    IF IsPrefix(RepoPrefix, repo) THEN DropFirst(repo, Len(RepoPrefix))
    ELSE repo

\* no name: _registry_repo_name has not been called
NoName == <<>>

NamesInit ==
    /\ OthersIdle
    /\ TokenIdle
    /\ resolved = {}

\* a URL is built for a registry repo name: _upstream_repo_name(repo)
UpstreamRepoNameCall ==
    /\ Cardinality(resolved) < MaxNameCalls
    /\ \E repo \in RegistryNames :
         /\ \A r \in resolved : r.repo # repo
         /\ resolved' = resolved \cup
                {[repo |-> repo, upstream |-> ClientUpstreamRepoName(repo),
                  registry |-> NoName]}
    /\ UNCHANGED <<hvars, cvars, dvars, tvars, gvars>>

\* a name the upstream uses is given back to the caller:
\* _registry_repo_name(upstream)
RegistryRepoNameCall ==
    /\ \E r \in resolved :
         /\ r.registry = NoName
         /\ resolved' = (resolved \ {r}) \cup
                {[r EXCEPT !.registry = ClientRegistryRepoName(r.upstream)]}
    /\ UNCHANGED <<hvars, cvars, dvars, tvars, gvars>>

NamesNext == UpstreamRepoNameCall \/ RegistryRepoNameCall

NamesSpec == NamesInit /\ [][NamesNext]_vars

\* C33 as stated: _upstream_repo_name maps distinct registry repo names to
\* distinct upstream repo names, and _registry_repo_name gives back the
\* registry repo name of every upstream name made from one, names that
\* begin with the project prefix included
C33_UpstreamRepoNameInjective ==
    /\ \A a, b \in resolved : a.repo # b.repo => a.upstream # b.upstream
    /\ \A a \in resolved : a.registry # NoName => a.registry = a.repo

\* what holds of the code: both hold of the names that do not begin with
\* the project prefix, and every upstream name is under the prefix
C33_UnprefixedNames ==
    /\ \A a, b \in resolved :
          (a.repo # b.repo /\ ~IsPrefix(RepoPrefix, a.repo)
                /\ ~IsPrefix(RepoPrefix, b.repo)) => a.upstream # b.upstream
    /\ \A a \in resolved :
          /\ IsPrefix(RepoPrefix, a.upstream)
          /\ (a.registry # NoName /\ ~IsPrefix(RepoPrefix, a.repo)) =>
                a.registry = a.repo

-----------------------------------------------------------------------------
\* create_upstream_repo_url on the URLs of the requests.

\* upstreamProject, followed by upstreamRepo when one is configured
UpstreamPrefix ==
    <<Project>> \o (IF config.upstream_repo # "" THEN <<config.upstream_repo>>
                    ELSE <<>>)

\* handle has made the upstream URL of a non-passthrough request
UpstreamUrlMade ==
    /\ request # NoRequest
    /\ Route(request) = "handle"
    /\ upstream_repo_url # NoRepoURL
    /\ ~AllowSkipPerms(registry_repo_url)

\* C34 as stated: create_upstream_repo_url on a non-passthrough URL puts
\* upstreamProject, followed by upstreamRepo when one is configured, before
\* both repo and mountedRepo; the from= query of the upstream URL is the
\* prefixed mountedRepo and the rest of the query is kept
C34_PrefixOnRepoAndMountedRepo ==
    UpstreamUrlMade =>
        /\ upstream_repo_url.repo = UpstreamPrefix \o registry_repo_url.repo
        /\ upstream_repo_url.url.origin = "upstream"
        /\ IF registry_repo_url.mounted_repo # <<>>
           THEN /\ upstream_repo_url.mounted_repo =
                      UpstreamPrefix \o registry_repo_url.mounted_repo
                /\ upstream_repo_url.url.query =
                      [registry_repo_url.url.query EXCEPT
                          !.from = upstream_repo_url.mounted_repo]
           ELSE /\ upstream_repo_url.mounted_repo = <<>>
                /\ upstream_repo_url.url.query = registry_repo_url.url.query

\* what holds of the code: the repo gets the project and the upstream repo,
\* the mounted repo and from= get the project alone
C34_ProjectOnMountedRepo ==
    UpstreamUrlMade =>
        /\ upstream_repo_url.repo = UpstreamPrefix \o registry_repo_url.repo
        /\ upstream_repo_url.url.origin = "upstream"
        /\ IF registry_repo_url.mounted_repo # <<>>
           THEN /\ upstream_repo_url.mounted_repo =
                      <<Project>> \o registry_repo_url.mounted_repo
                /\ upstream_repo_url.url.query =
                      [registry_repo_url.url.query EXCEPT
                          !.from = upstream_repo_url.mounted_repo]
           ELSE /\ upstream_repo_url.mounted_repo = <<>>
                /\ upstream_repo_url.url.query = registry_repo_url.url.query

-----------------------------------------------------------------------------
\* The class of the upstream URL.

\* the upstream answered the request with a Location under the requested
\* repo, on its own host or without a host
LocationUnderRepo ==
    /\ pc = "done"
    /\ AnsweredLocation # NoURL
    /\ AnsweredLocation.origin \in {"", "upstream"}
    /\ AnsweredLocation.path = UploadPath(upstream_repo_url.url.path)

\* the Location given to the caller is the one create_registry_repo_url
\* makes of the upstream's, on the registry's host
LocationRewritten ==
    /\ "location" \in DOMAIN response
    /\ response.location.origin = "registry"
    /\ response.location = CreateRegistryRepoUrl(FromUrl(AnsweredLocation)).url

\* C35 as stated: the upstream URL made of a non-passthrough registry URL
\* is not a passthrough URL, and a Location the upstream returns under that
\* repo is rewritten back to the registry namespace, not returned unchanged
C35_PrefixingKeepsClass ==
    UpstreamUrlMade =>
        /\ ~AllowSkipPerms(upstream_repo_url)
        /\ LocationUnderRepo => LocationRewritten

\* what holds of the code: the Location is rewritten where the prefixed URL
\* matches no passthrough pattern
C35_RewrittenUnlessPassthrough ==
    (UpstreamUrlMade /\ ~AllowSkipPerms(upstream_repo_url)) =>
        (LocationUnderRepo => LocationRewritten)

-----------------------------------------------------------------------------
\* The permissions the handlers require.

\* read for HEAD and GET, write for POST, PUT, PATCH and DELETE, on the repo
\* of the URL, and read on the mounted repo when there is one
RequiredOfHandle(req, repo_url) ==
    {[uri |-> <<"image:", "cluster">> \o repo_url.repo,
      action |-> IF req.method \in {"HEAD", "GET"} THEN "read" ELSE "write"]}
    \cup (IF repo_url.mounted_repo # <<>>
          THEN {[uri |-> <<"image:", "cluster">> \o repo_url.mounted_repo,
                 action |-> "read"]}
          ELSE {})

\* the handler is past its permission check
PastPermissionCheck ==
    \/ pc \in {"create_repo", "get_headers_for_repo", "proxy_request",
               "tags_list_request", "aws_ecr_tags_list"}
    \/ pc = "done" /\ sent # <<>>

\* C36 as stated: V2Handler.handle goes on only with read on
\* image://{cluster}/{repo} granted when the method is HEAD or GET, write
\* when it is POST, PUT, PATCH or DELETE, and read on the mounted repo when
\* there is one, whatever the URL
C36_AnyUrlRequiredPermissions ==
    (request # NoRequest /\ Route(request) = "handle"
        /\ registry_repo_url.valid /\ PastPermissionCheck) =>
      granted = RequiredOfHandle(request, registry_repo_url)

\* C36: for a URL that matches no passthrough pattern V2Handler.handle goes
\* on only with read on image://{cluster}/{repo} granted when the method is
\* HEAD or GET, write when it is POST, PUT, PATCH or DELETE, and read on the
\* mounted repo when there is one, it asks for nothing else, and it answers
\* 403 when one of these was refused; the tags-list handler requires read
C36_RequiredPermissions ==
    /\ (request # NoRequest /\ Route(request) = "handle"
            /\ registry_repo_url.valid /\ ~AllowSkipPerms(registry_repo_url)) =>
          /\ request.method \in {"HEAD", "GET", "POST", "PUT", "PATCH", "DELETE"}
          /\ granted \subseteq RequiredOfHandle(request, registry_repo_url)
          /\ PastPermissionCheck =>
                granted = RequiredOfHandle(request, registry_repo_url)
          /\ (pc = "done" /\ response.status = StatusForbidden) =>
                granted # RequiredOfHandle(request, registry_repo_url)
    /\ (request # NoRequest /\ Route(request) = "handle_repo_tags_list"
            /\ registry_repo_url.valid) =>
          /\ granted \subseteq
                {[uri |-> <<"image:", "cluster">> \o registry_repo_url.repo,
                  action |-> "read"]}
          /\ PastPermissionCheck => granted # {}

\* a PUT went upstream with write on its repo granted, and nothing else asked
C36_Witness ==
    /\ request # NoRequest
    /\ Route(request) = "handle"
    /\ request.method = "PUT"
    /\ ~AllowSkipPerms(registry_repo_url)
    /\ pc = "done"
    /\ sent # <<>>
    /\ granted = {[uri |-> <<"image:", "cluster">> \o registry_repo_url.repo,
                   action |-> "write"]}

-----------------------------------------------------------------------------
\* The upstream requests of the paging loop of handle_catalog.

\* the paging loop sends a request
LoopRequestStep == cpc = "loop" /\ Len(sent') = Len(sent) + 1

\* max(requested.n - len(filtered), max_catalog_entries)
LoopNumber == Max({page.number - Len(filtered), max_catalog_entries})

\* C37 as stated: every upstream catalog request of the paging loop carries
\* n = max(requested.n - len(filtered), max_catalog_entries) and last = the
\* current cursor
C37_LoopRequestCarriesN ==
    [][LoopRequestStep =>
          /\ sent'[Len(sent')].url.n = LoopNumber
          /\ sent'[Len(sent')].url.last = paging_url.last]_vars

\* what holds of the code: that number is the value of the query key
\* `number`; n stays what the request, or the upstream's next link, gave
C37_LoopRequestCarriesNumber ==
    [][LoopRequestStep =>
          /\ sent'[Len(sent')].url.number = LoopNumber
          /\ sent'[Len(sent')].url.n = paging_url.n
          /\ sent'[Len(sent')].url.last = paging_url.last]_vars

-----------------------------------------------------------------------------
\* The digest groups of delete_project_images.

\* the images list_images yields for the event being handled
ListedImages ==
    ListImages(client.class, CurrentEvent.org, CurrentEvent.project, repositories)

\* the delete_image_manifest tasks of an image and a digest
TasksOf(image, digest) ==
    {t \in 1..Len(tasks) : tasks[t].image = image /\ tasks[t].digest = digest}

\* the tasks of an image whose tags include the tag
TasksWithTag(image, tag) ==
    {t \in 1..Len(tasks) :
        /\ tasks[t].image = image
        /\ \E j \in 1..Len(tasks[t].tags) : tasks[t].tags[j] = tag}

\* every digest of every listed image has one task, every tag is in the
\* group of its digest and in no other, once, and there is no other task
OneTaskPerDigest ==
    /\ \A i \in 1..Len(ListedImages) :
          LET image == ListedImages[i]
              tag_digests == TagsOf(image, repositories)
          IN  \A k \in 1..Len(tag_digests) :
                LET tag == tag_digests[k][1]
                    digest == tag_digests[k][2]
                IN  /\ Cardinality(TasksOf(image, digest)) = 1
                    /\ TasksWithTag(image, tag) = TasksOf(image, digest)
                    /\ \A t \in TasksOf(image, digest) :
                          Cardinality({j \in 1..Len(tasks[t].tags) :
                                          tasks[t].tags[j] = tag}) = 1
    /\ \A t \in 1..Len(tasks) :
          \E i \in 1..Len(ListedImages) :
             /\ tasks[t].image = ListedImages[i]
             /\ \E k \in 1..Len(TagsOf(ListedImages[i], repositories)) :
                   TagsOf(ListedImages[i], repositories)[k][2] = tasks[t].digest

\* a task whose manifest DELETE was sent sends no other: it waits for the
\* answer and then stays as it ended
NoSecondDelete ==
    \A t \in 1..Len(tasks) :
        (ManifestDeleteSent(tasks[t]) /\ Len(tasks') = Len(tasks)) =>
            /\ ManifestDeleteSent(tasks'[t])
            /\ tasks'[t].status \notin {"pending", "tags"}
            /\ tasks[t].status \in {"done", "failed"} => tasks'[t] = tasks[t]

\* C38: for each repository of the project delete_project_images makes one
\* delete_image_manifest task per distinct digest, every tag of the
\* repository belongs to the group of exactly one digest, each task sends
\* its manifest DELETE at most once, and when delete_project_images has
\* returned each has sent it: one manifest DELETE per distinct digest, also
\* when several tags point at it
C38_OneDeletePerDigest ==
    /\ [](tasks # <<>> => OneTaskPerDigest)
    /\ []((log # <<>> /\ log[Len(log)] = [event |-> handled, outcome |-> "returned"])
            => /\ OneTaskPerDigest
               /\ \A t \in 1..Len(tasks) : tasks[t].status = "done")
    /\ [][NoSecondDelete]_vars

\* delete_project_images returned after it deleted, among others, the
\* manifest of a digest that two tags point at
C38_Witness ==
    /\ log # <<>>
    /\ log[Len(log)] = [event |-> handled, outcome |-> "returned"]
    /\ Len(tasks) >= 2
    /\ \E t \in 1..Len(tasks) :
          /\ Len(tasks[t].tags) = 2
          /\ tasks[t].status = "done"

-----------------------------------------------------------------------------
\* The enumeration of delete_project_images.

\* the enumeration requests that are not answered yet
Unanswered == {i \in 1..Len(enum) : ~enum[i].answered}

\* every request of the enumeration was made and answered
EnumerationFinished ==
    /\ Unanswered = {}
    /\ Len(enum) = Len(Enumeration(client.class, CurrentEvent, repositories))

\* the requests come in the order of the loops: the catalog first, the tags
\* list of an image before the manifests of its tags, image after image
EnumerationInOrder ==
    /\ enum # <<>> => enum[1].op = "catalog"
    /\ \A i \in 2..Len(enum) :
          /\ enum[i].op \in {"tags_list", "manifest"}
          /\ enum[i].op = "manifest" =>
                /\ enum[i - 1].image = enum[i].image
                /\ enum[i - 1].op \in {"tags_list", "manifest"}
          /\ \A j \in 2..(i - 1) :
                enum[j].image = enum[i].image =>
                    \A k \in j..i : enum[k].image = enum[i].image

DeleteRepositoryCalls == {i \in 1..Len(sent) : sent[i].op = "delete_repository"}

\* the call comes from _handle_aws_ecr_tags_list
FromTagsList ==
    /\ request # NoRequest
    /\ Route(request) = "handle_repo_tags_list"

C40_NextWitness ==
    /\ pc = "done"
    /\ FromTagsList
    /\ "next" \in DOMAIN request.url.query
    /\ \E i \in 1..Len(sent) :
          /\ sent[i].op = "list_images"
          /\ "listing" \in DOMAIN sent[i]
          /\ sent[i].listing.imageIds = 0
    /\ DeleteRepositoryCalls = {}

\* an empty repository removed after its last image was deleted
C40_RemovedWitness ==
    /\ pc = "done"
    /\ ~FromTagsList
    /\ \E i \in DeleteRepositoryCalls : sent[i].outcome = "ok"

====
